---- MODULE Spec2Model ----
(***************************************************************************)
(* Filter/Query Engine of the time-series service: the value-data listing  *)
(* (app/api/v1/endpoints/value_data.py) and crudValueData                  *)
(* (app/crud/value_data.py), over the Series Registry (PostgreSQL) and the *)
(* Observation Store (ClickHouse).                                         *)
(*                                                                         *)
(* Eight specifications share the variables:                               *)
(*   Spec            the value-data listing and the direct filtered query; *)
(*   StoreSpec       the keyed value-data operations (get by key, create,  *)
(*                   update, derived list) and the availability check;     *)
(*   RegistrySpec    the Series Registry endpoints (crudMetaSeries);       *)
(*   DependencySpec  the Dependency Graph endpoints (crud_dependency);     *)
(*   IntegritySpec   series creation, update and soft delete together      *)
(*                   with create_dependency (the foreign keys);            *)
(*   LedgerSpec      the Calculation Ledger endpoints with two concurrent  *)
(*                   clients (crud_calculation);                           *)
(*   HealthSpec      the connection managers and GET /health;              *)
(*   SchemaSpec      the alembic migration and the dynamic enums read from *)
(*                   the lookup tables.                                    *)
(*                                                                         *)
(* Conventions.  A Python Optional is a sequence of length 0 (None) or 1.  *)
(* A Python str is a sequence of one-character strings, so that lower(),   *)
(* strip(), startswith() and ILIKE are computed, not assumed.  A date is a *)
(* day number; a datetime is a number of seconds (day * 86400 + second of  *)
(* day).  A value is an integer number of price units.                     *)
(***************************************************************************)
EXTENDS Integers, Sequences, FiniteSets, TLC

VARIABLES
    meta_series,        \* series_id of the rows present in table meta_series
    value_data,         \* rows of the ClickHouse table value_data, in insert order
    ch_client,          \* _clickhouse_connection_manager is initialized with a client
    pc,                 \* position of the request being served
    entry,              \* operation that was called
    request,            \* query parameters / filter_obj of the request
    now,                \* datetime.now() read by _build_clickhouse_conditions
    conditions,         \* ClickHouse WHERE conditions of the request
    params,             \* ClickHouse query parameters of the request
    series_ids_filter,  \* result of _get_filtered_series_ids
    value_data_list,    \* result of the ClickHouse scan
    response,           \* what the operation returned or raised
    trace,              \* store accesses of the request, in order
    target,             \* series_id, timestamp and body of a keyed value-data request
    registry,           \* mutable columns of the rows of meta_series, by series_id
    dependency_graph,   \* rows of series_dependency_graph, in insert order
    calculation_log,    \* rows of calculation_log, in insert order
    series_id_seq,      \* last value of the serial sequence of meta_series.series_id
    dependency_id_seq,  \* last value of the sequence of dependency_id
    calculation_id_seq, \* last value of the sequence of calculation_id
    utcnow,             \* last value datetime.utcnow() returned
    session,            \* per request: the crudBase.create in progress
    result,             \* what the last relational operation returned or raised
    initialized,        \* which connection managers hold a live engine, pool or client
    health,             \* the health check being served: position, health_status, response
    schema,             \* tables, columns, indexes and foreign keys of the PostgreSQL database
    alembic_version,    \* revision recorded in table alembic_version
    migration,          \* the alembic run in progress: direction, next operation, its DDL transaction
    _initialized,       \* dynamic_enums._initialized
    _enum_cache,        \* dynamic_enums._enum_cache
    global_enums        \* the module-level enum instances of dynamic_enums

\* the relational side: Series Registry, Dependency Graph, Calculation Ledger
registry_vars == <<registry, dependency_graph, calculation_log, series_id_seq,
                   dependency_id_seq, calculation_id_seq, utcnow, session, result>>

\* operations: health check, schema migration, enum initialisation at startup
system_vars == <<initialized, health, schema, alembic_version, migration,
                 _initialized, _enum_cache, global_enums>>

vars == <<meta_series, value_data, ch_client, pc, entry, request, now,
          conditions, params, series_ids_filter, value_data_list, response, trace,
          target, registry_vars, system_vars>>

----------------------------------------------------------------------------
(* Optional values *)

None == <<>>

Some(x) == <<x>>

IsNone(o) == Len(o) = 0

Val(o) == o[1]

----------------------------------------------------------------------------
(* Bounds of the model *)

\* rows the Observation Store may hold
MaxRows == 4

\* day number of date.today()
Today == 500

SecondsPerDay == 86400

\* seconds of the day at which a request may read the clock
TimesOfDay == {600, 43200}

SeriesIds == {1, 2, 3}

\* a series_id no row of meta_series has
MissingSeriesId == 9

----------------------------------------------------------------------------
(* Python str operations *)

LowerChar(c) ==
    CASE c = "G" -> "g"
      [] c = "A" -> "a"
      [] c = "Z" -> "z"
      [] OTHER -> c

lower(s) == [i \in 1..Len(s) |-> LowerChar(s[i])]

IsSpace(c) == c = " "

RECURSIVE lstrip(_)
lstrip(s) == IF Len(s) > 0 /\ IsSpace(Head(s)) THEN lstrip(Tail(s)) ELSE s

RECURSIVE rstrip(_)
rstrip(s) ==
    IF Len(s) > 0 /\ IsSpace(s[Len(s)]) THEN rstrip(SubSeq(s, 1, Len(s) - 1)) ELSE s

strip(s) == rstrip(lstrip(s))

startswith(s, c) == Len(s) > 0 /\ Head(s) = c

\* p occurs in s as a contiguous substring
Contains(s, p) ==
    \E i \in 0..(Len(s) - Len(p)) : SubSeq(s, i + 1, i + Len(p)) = p

\* column ILIKE '%pattern%' (PostgreSQL); a NULL column matches nothing.  The
\* patterns of the model hold no LIKE wildcard (% or _).
ilike(column, pattern) ==
    /\ ~IsNone(column)
    /\ Contains(lower(Val(column)), lower(pattern))

----------------------------------------------------------------------------
(* Series Registry and Lookup Catalog (PostgreSQL) *)

Str_Ga == <<"G", "a">>

Str_gb == <<"g", "b">>

Str_Zc == <<"Z", "c">>

\* asset_class_lookup: asset_class_id -> asset_class_name
asset_class_lookup == (1 :> "Commodity") @@ (2 :> "Equity")

\* product_type_lookup: product_type_id -> product_type_name
product_type_lookup == (1 :> "Spot")

\* The rows of meta_series the registry may hold.  Nullable columns are
\* Optionals.
SeriesRows ==
    (1 :> [series_name |-> Str_Ga, ticker |-> Some(<<"x">>), is_active |-> TRUE,
           is_derived |-> FALSE, is_latest |-> TRUE, version_number |-> 2,
           asset_class_id |-> Some(1), product_type_id |-> Some(1)]) @@
    (2 :> [series_name |-> Str_gb, ticker |-> None, is_active |-> FALSE,
           is_derived |-> TRUE, is_latest |-> TRUE, version_number |-> 1,
           asset_class_id |-> None, product_type_id |-> Some(1)]) @@
    (3 :> [series_name |-> Str_Zc, ticker |-> Some(<<"z">>), is_active |-> TRUE,
           is_derived |-> TRUE, is_latest |-> FALSE, version_number |-> 1,
           asset_class_id |-> Some(2), product_type_id |-> None])

\* the foreign key of a series row into the lookup dimension join_key
LookupFk(row, join_key) ==
    IF join_key = "asset_class" THEN row.asset_class_id ELSE row.product_type_id

LookupTable(join_key) ==
    IF join_key = "asset_class" THEN asset_class_lookup ELSE product_type_lookup

\* the relationship attribute series.<join_key>: the lookup name or None
RelatedName(row, join_key) ==
    LET fk == LookupFk(row, join_key)
    IN  IF ~IsNone(fk) /\ Val(fk) \in DOMAIN LookupTable(join_key)
        THEN Some(LookupTable(join_key)[Val(fk)])
        ELSE None

----------------------------------------------------------------------------
(* Observation Store (ClickHouse table value_data) *)

Row(s, t, v) == [series_id |-> s, timestamp |-> t, value |-> v]

\* rows present when the service starts
SeededRows ==
    << Row(1, Today, 10), Row(2, Today - 200, 20), Row(1, Today - 400, 30) >>

\* rows a client may insert
InsertRows == { Row(s, Today, 20) : s \in SeriesIds }

----------------------------------------------------------------------------
(* pytimeparse2.parse, restricted to the grammar <integer><unit> with the  *)
(* units y, mo, w, d, h, m, s; a year is 365 days and a month 30 days.     *)
(* Anything else is unparsable and yields None.                            *)

Digits == <<"0", "1", "2", "3", "4", "5", "6", "7", "8", "9">>

IsDigit(c) == \E d \in 1..10 : Digits[d] = c

DigitValue(c) == (CHOOSE d \in 1..10 : Digits[d] = c) - 1

RECURSIVE DigitPrefixLen(_)
DigitPrefixLen(s) ==
    IF Len(s) > 0 /\ IsDigit(Head(s)) THEN 1 + DigitPrefixLen(Tail(s)) ELSE 0

RECURSIVE IntOf(_, _)
IntOf(s, acc) ==
    IF Len(s) = 0 THEN acc ELSE IntOf(Tail(s), 10 * acc + DigitValue(Head(s)))

\* seconds of one unit, 0 when u is no unit
UnitSeconds(u) ==
    CASE u = <<"y">> -> 365 * SecondsPerDay
      [] u = <<"m", "o">> -> 30 * SecondsPerDay
      [] u = <<"w">> -> 7 * SecondsPerDay
      [] u = <<"d">> -> SecondsPerDay
      [] u = <<"h">> -> 3600
      [] u = <<"m">> -> 60
      [] u = <<"s">> -> 1
      [] OTHER -> 0

\* pytimeparse2_parse that reads an unparsable expression as zero seconds
pytimeparse2_parse_Zero(s) ==
    LET n == DigitPrefixLen(s)
        unit == SubSeq(s, n + 1, Len(s))
    IN  IF n = 0 \/ UnitSeconds(unit) = 0
        THEN Some(0)
        ELSE Some(IntOf(SubSeq(s, 1, n), 0) * UnitSeconds(unit))

pytimeparse2_parse(s) ==
    LET n == DigitPrefixLen(s)
        unit == SubSeq(s, n + 1, Len(s))
    IN  IF n = 0 \/ UnitSeconds(unit) = 0
        THEN None
        ELSE Some(IntOf(SubSeq(s, 1, n), 0) * UnitSeconds(unit))

\* datetime.date() of a datetime given in seconds
DateOf(seconds) == seconds \div SecondsPerDay

----------------------------------------------------------------------------
(* valueDataFilter and the query parameters of a request *)

Str_timestamp == <<"t", "i", "m", "e", "s", "t", "a", "m", "p">>

Str_series_id == <<"s", "e", "r", "i", "e", "s", "_", "i", "d">>

Str_value == <<"v", "a", "l", "u", "e">>

Range(seq) == {seq[i] : i \in DOMAIN seq}

\* A request with no query parameter: every field of valueDataFilter is None.
\* limit is the pagination parameter of FilterBase; valueDataFilter declares
\* no such field, so it reaches no code of the listing.
DefaultFilter ==
    [series_id |-> None, series_id__in |-> None,
     timestamp__gte |-> None, timestamp__lte |-> None, timestamp__ago |-> None,
     is_latest |-> None, value__gte |-> None, value__lte |-> None,
     series_name__ilike |-> None, series_name__in |-> None,
     ticker__ilike |-> None, is_active |-> None, is_derived |-> None,
     asset_class_name |-> None, asset_class_name__in |-> None,
     product_type_name |-> None, product_type_name__in |-> None,
     order_by |-> None, limit |-> None]

\* the values a request may give to each parameter
FieldValues ==
    [series_id |-> {2},
     series_id__in |-> {<<1, 3>>},
     timestamp__gte |-> {Today - 200},
     timestamp__lte |-> {Today - 200},
     timestamp__ago |-> {<<"1", "y">>, <<"2", "0", "m">>, <<"x">>},
     is_latest |-> {TRUE},
     value__gte |-> {20},
     value__lte |-> {20},
     series_name__ilike |-> {<<"g">>, <<"Z">>, <<"q">>, <<" ">>, <<>>},
     series_name__in |-> {<< <<"G", "A", " ">> >>, << <<"q">> >>, << <<" ">>, <<>> >>,
                          << <<>> >>, <<>>},
     ticker__ilike |-> {<<"X">>},
     is_active |-> {TRUE, FALSE},
     is_derived |-> {TRUE, FALSE},
     asset_class_name |-> {"Equity"},
     asset_class_name__in |-> {<<"Commodity">>},
     product_type_name |-> {"Spot"},
     product_type_name__in |-> {<<"Spot">>},
     order_by |-> {<< Str_timestamp >>, << Str_series_id, <<"-">> \o Str_timestamp >>},
     limit |-> {1}]

Assignments ==
    UNION { {<<fld, v>> : v \in FieldValues[fld]} : fld \in DOMAIN FieldValues }

\* the requests of the model: at most two parameters are supplied
Requests ==
    {DefaultFilter}
    \cup {[DefaultFilter EXCEPT ![a[1]] = Some(a[2])] : a \in Assignments}
    \cup {[DefaultFilter EXCEPT ![a[1]] = Some(a[2]), ![b[1]] = Some(b[2])] :
            a \in Assignments, b \in Assignments}

\* Python truthiness of an Optional[bool]
TruthyBool(o) == ~IsNone(o) /\ Val(o)

\* Python truthiness of an Optional[str] or Optional[list]
TruthySeq(o) == ~IsNone(o) /\ Len(Val(o)) > 0

----------------------------------------------------------------------------
(* crudValueData: building the ClickHouse query *)

Condition(column, op, param, ids) ==
    [column |-> column, op |-> op, param |-> param, ids |-> ids]

NoParams ==
    [timestamp__gte |-> None, timestamp__lte |-> None,
     value__gte |-> None, value__lte |-> None]

\* _build_clickhouse_conditions: the conditions are appended and the
\* parameters are assigned in the order of the code, so that a later
\* assignment to the same parameter name replaces an earlier one.
_build_clickhouse_conditions(filter_obj, clock) ==
    LET c1 == IF ~IsNone(filter_obj.series_id__in)
              THEN << Condition(Str_series_id, "IN", "", Range(Val(filter_obj.series_id__in))) >>
              ELSE <<>>
        seconds_ago == IF ~IsNone(filter_obj.timestamp__ago)
                       THEN pytimeparse2_parse(Val(filter_obj.timestamp__ago))
                       ELSE None
        c2 == IF ~IsNone(seconds_ago)
              THEN c1 \o << Condition(Str_timestamp, ">=", "timestamp__gte", {}) >>
              ELSE c1
        p2 == IF ~IsNone(seconds_ago)
              THEN [NoParams EXCEPT !.timestamp__gte = Some(DateOf(clock - Val(seconds_ago)))]
              ELSE NoParams
        c3 == IF ~IsNone(filter_obj.timestamp__gte)
              THEN c2 \o << Condition(Str_timestamp, ">=", "timestamp__gte", {}) >>
              ELSE c2
        p3 == IF ~IsNone(filter_obj.timestamp__gte)
              THEN [p2 EXCEPT !.timestamp__gte = filter_obj.timestamp__gte]
              ELSE p2
        c4 == IF ~IsNone(filter_obj.timestamp__lte)
              THEN c3 \o << Condition(Str_timestamp, "<=", "timestamp__lte", {}) >>
              ELSE c3
        p4 == IF ~IsNone(filter_obj.timestamp__lte)
              THEN [p3 EXCEPT !.timestamp__lte = filter_obj.timestamp__lte]
              ELSE p3
        c5 == IF ~IsNone(filter_obj.value__gte)
              THEN c4 \o << Condition(Str_value, ">=", "value__gte", {}) >>
              ELSE c4
        p5 == IF ~IsNone(filter_obj.value__gte)
              THEN [p4 EXCEPT !.value__gte = filter_obj.value__gte]
              ELSE p4
        c6 == IF ~IsNone(filter_obj.value__lte)
              THEN c5 \o << Condition(Str_value, "<=", "value__lte", {}) >>
              ELSE c5
        p6 == IF ~IsNone(filter_obj.value__lte)
              THEN [p5 EXCEPT !.value__lte = filter_obj.value__lte]
              ELSE p5
    IN  [conditions |-> c6, params |-> p6]

\* _has_metadata_filters: any() over the metadata fields, i.e. Python
\* truthiness of each.  The ticker_source fields it also reads are declared
\* by no filter schema and are never supplied.
_has_metadata_filters(filter_obj) ==
    \/ TruthySeq(filter_obj.series_name__ilike)
    \/ TruthySeq(filter_obj.series_name__in)
    \/ TruthySeq(filter_obj.ticker__ilike)
    \/ TruthyBool(filter_obj.is_active)
    \/ TruthyBool(filter_obj.is_derived)
    \/ TruthyBool(filter_obj.is_latest)
    \/ TruthySeq(filter_obj.asset_class_name__in)
    \/ TruthySeq(filter_obj.product_type_name__in)

\* _build_order_by_clause: a sequence of <<column, direction>>
_build_order_by_clause(filter_obj) ==
    IF ~TruthySeq(filter_obj.order_by)
    THEN << <<Str_timestamp, "DESC">> >>
    ELSE LET order_by == Val(filter_obj.order_by)
         IN  [i \in 1..Len(order_by) |->
                << IF startswith(order_by[i], "-") THEN Tail(order_by[i]) ELSE order_by[i],
                   IF startswith(order_by[i], "-") THEN "DESC" ELSE "ASC" >>]

----------------------------------------------------------------------------
(* crudValueData: the metadata-resolution query (PostgreSQL) *)

MetaCondition(kind, arg, join_key) == [kind |-> kind, arg |-> arg, join_key |-> join_key]

\* the lookup filters of lookup_filter_map, as <<filter field, join key>>; the
\* other lookup dimensions of the map are handled by the same loop
lookup_filter_map ==
    << <<"asset_class_name__in", "asset_class">>,
       <<"product_type_name__in", "product_type">> >>

\* [name.lower().strip() for name in series_names if name]
RECURSIVE series_names_lower(_)
series_names_lower(series_names) ==
    IF Len(series_names) = 0 THEN <<>>
    ELSE IF Len(Head(series_names)) > 0
         THEN << strip(lower(Head(series_names))) >> \o series_names_lower(Tail(series_names))
         ELSE series_names_lower(Tail(series_names))

\* _build_series_name_in_condition: a condition, or None
_build_series_name_in_condition(series_names) ==
    IF Len(series_names_lower(series_names)) > 0
    THEN Some(MetaCondition("lower(series_name) IN", Range(series_names_lower(series_names)), ""))
    ELSE None

RECURSIVE LookupConditions(_, _)
LookupConditions(filter_obj, map) ==
    IF Len(map) = 0 THEN <<>>
    ELSE LET value == filter_obj[Head(map)[1]]
         IN  (IF ~IsNone(value)
              THEN << MetaCondition("lookup name IN", Range(Val(value)), Head(map)[2]) >>
              ELSE <<>>) \o LookupConditions(filter_obj, Tail(map))

\* _build_meta_series_conditions: the conditions and the joins they need
_build_meta_series_conditions(filter_obj) ==
    LET c1 == IF ~IsNone(filter_obj.series_name__ilike)
              THEN << MetaCondition("series_name ILIKE", Val(filter_obj.series_name__ilike), "") >>
              ELSE <<>>
        c2 == IF ~IsNone(filter_obj.series_name__in)
              THEN c1 \o _build_series_name_in_condition(Val(filter_obj.series_name__in))
              ELSE c1
        c3 == IF ~IsNone(filter_obj.ticker__ilike)
              THEN c2 \o << MetaCondition("ticker ILIKE", Val(filter_obj.ticker__ilike), "") >>
              ELSE c2
        c4 == IF ~IsNone(filter_obj.is_active)
              THEN c3 \o << MetaCondition("is_active ==", Val(filter_obj.is_active), "") >>
              ELSE c3
        c5 == IF ~IsNone(filter_obj.is_derived)
              THEN c4 \o << MetaCondition("is_derived ==", Val(filter_obj.is_derived), "") >>
              ELSE c4
        c6 == IF ~IsNone(filter_obj.is_latest)
              THEN c5 \o << MetaCondition("is_latest ==", Val(filter_obj.is_latest), "") >>
              ELSE c5
        c7 == c6 \o LookupConditions(filter_obj, lookup_filter_map)
    IN  [conditions |-> c7,
         joins_needed |-> {c7[i].join_key : i \in {j \in DOMAIN c7 : c7[j].join_key # ""}}]

\* _apply_lookup_joins: an inner join per needed dimension keeps the series
\* rows whose foreign key finds a lookup row
_apply_lookup_joins(ids, joins_needed) ==
    {sid \in ids : \A join_key \in joins_needed :
        ~IsNone(RelatedName(SeriesRows[sid], join_key))}

\* a WHERE condition of the resolution query on the (joined) row of sid
MetaConditionHolds(cond, sid) ==
    LET row == SeriesRows[sid]
    IN  CASE cond.kind = "series_name ILIKE" -> ilike(Some(row.series_name), cond.arg)
          [] cond.kind = "lower(series_name) IN" -> lower(row.series_name) \in cond.arg
          [] cond.kind = "ticker ILIKE" -> ilike(row.ticker, cond.arg)
          [] cond.kind = "is_active ==" -> row.is_active = cond.arg
          [] cond.kind = "is_derived ==" -> row.is_derived = cond.arg
          [] cond.kind = "is_latest ==" -> row.is_latest = cond.arg
          [] OTHER -> Val(RelatedName(row, cond.join_key)) \in cond.arg

\* _get_filtered_series_ids over the registry rows present
_get_filtered_series_ids(present, filter_obj) ==
    LET built == _build_meta_series_conditions(filter_obj)
    IN  {sid \in _apply_lookup_joins(present, built.joins_needed) :
            \A i \in DOMAIN built.conditions : MetaConditionHolds(built.conditions[i], sid)}

----------------------------------------------------------------------------
(* crudValueData: the Observation Store scan (ClickHouse) *)

ColumnValue(row, column) ==
    CASE column = Str_timestamp -> row.timestamp
      [] column = Str_series_id -> row.series_id
      [] OTHER -> row.value

\* one condition of the WHERE clause, with the query parameters bound
ConditionHolds(cond, parameters, row) ==
    CASE cond.op = "IN" -> ColumnValue(row, cond.column) \in cond.ids
      [] cond.op = ">=" -> ColumnValue(row, cond.column) >= Val(parameters[cond.param])
      [] OTHER -> ColumnValue(row, cond.column) <= Val(parameters[cond.param])

\* WHERE c1 AND c2 ...; "1=1" when there is no condition
WhereClause(conds, parameters, row) ==
    \A i \in DOMAIN conds : ConditionHolds(conds[i], parameters, row)

\* row a sorts strictly before row b under the ORDER BY clause
RECURSIVE SortsBefore(_, _, _)
SortsBefore(a, b, order_by) ==
    IF Len(order_by) = 0 THEN FALSE
    ELSE LET x == ColumnValue(a, Head(order_by)[1])
             y == ColumnValue(b, Head(order_by)[1])
         IN  IF x = y THEN SortsBefore(a, b, Tail(order_by))
             ELSE IF Head(order_by)[2] = "ASC" THEN x < y ELSE x > y

RECURSIVE Permutations_of(_)
Permutations_of(S) ==
    IF S = {} THEN {<<>>}
    ELSE UNION { {<<x>> \o q : q \in Permutations_of(S \ {x})} : x \in S }

\* the results the query SELECT ... FROM value_data WHERE ... ORDER BY ... may
\* give: the matching rows in an order the ORDER BY clause allows (rows that
\* tie come in any order)
QueryResults(table, conds, parameters, order_by) ==
    LET matching == {i \in DOMAIN table : WhereClause(conds, parameters, table[i])}
        ordered == {q \in Permutations_of(matching) :
                      \A i, j \in DOMAIN q :
                         i < j => ~SortsBefore(table[q[j]], table[q[i]], order_by)}
    IN  { [k \in DOMAIN q |-> table[q[k]]] : q \in ordered }

----------------------------------------------------------------------------
(* get_value_data: validation and grouping of the primary listing *)

\* NonBlank without the strip(): a name of spaces counts as a name
NonBlank_NoStrip(name) == Len(name) > 0

\* name and name.strip()
NonBlank(name) == Len(name) > 0 /\ Len(strip(name)) > 0

\* the two checks at the head of get_value_data; TRUE when the request passes
series_name_valid(filters) ==
    LET has_ilike == ~IsNone(filters.series_name__ilike)
        has_in == ~IsNone(filters.series_name__in)
        ilike_valid == has_ilike /\ NonBlank(Val(filters.series_name__ilike))
        in_valid == /\ has_in
                    /\ Len(Val(filters.series_name__in)) > 0
                    /\ \E i \in DOMAIN Val(filters.series_name__in) :
                          NonBlank(Val(filters.series_name__in)[i])
    IN  /\ has_ilike \/ has_in
        /\ ilike_valid \/ in_valid

\* MetadataBlock whose defaults are those of a new series (active, version 0)
MetadataBlock_NewSeriesDefaults(series_id, found) ==
    LET series == SeriesRows[series_id]
    IN  [series_id |-> series_id,
         series_name |-> IF found THEN series.series_name ELSE <<>>,
         ticker |-> IF found THEN series.ticker ELSE None,
         is_active |-> IF found THEN series.is_active ELSE TRUE,
         is_derived |-> IF found THEN series.is_derived ELSE FALSE,
         is_latest |-> IF found THEN series.is_latest ELSE TRUE,
         version_number |-> IF found THEN series.version_number ELSE 0,
         asset_class_name |-> IF found THEN RelatedName(series, "asset_class") ELSE None,
         product_type_name |-> IF found THEN RelatedName(series, "product_type") ELSE None]

\* valueDataWithMetadataResponse of a series_id, from metadata_dict.get(series_id):
\* found tells whether the metadata query returned a row for it
MetadataBlock(series_id, found) ==
    LET series == SeriesRows[series_id]
    IN  [series_id |-> series_id,
         series_name |-> IF found THEN series.series_name ELSE <<>>,
         ticker |-> IF found THEN series.ticker ELSE None,
         is_active |-> IF found THEN series.is_active ELSE FALSE,
         is_derived |-> IF found THEN series.is_derived ELSE FALSE,
         is_latest |-> IF found THEN series.is_latest ELSE TRUE,
         version_number |-> IF found THEN series.version_number ELSE 1,
         asset_class_name |-> IF found THEN RelatedName(series, "asset_class") ELSE None,
         product_type_name |-> IF found THEN RelatedName(series, "product_type") ELSE None]

valueDataResponse(vd) == [timestamp |-> vd.timestamp, value |-> vd.value]

\* GroupOne that assigns the row to the entry instead of appending it
GroupOne_Overwrite(grouped_data, vd, metadata_dict) ==
    LET opened == IF \E k \in DOMAIN grouped_data : grouped_data[k].key = vd.series_id
                  THEN grouped_data
                  ELSE Append(grouped_data,
                              [key |-> vd.series_id,
                               metadata |-> MetadataBlock(vd.series_id,
                                                          vd.series_id \in metadata_dict),
                               value_data_list |-> <<>>])
    IN  [k \in DOMAIN opened |->
            IF opened[k].key = vd.series_id
            THEN [opened[k] EXCEPT !.value_data_list = << valueDataResponse(vd) >>]
            ELSE opened[k]]

\* the body of the loop "for vd in value_data_list": grouped_data is a dict,
\* kept as the sequence of its entries in insertion order
GroupOne(grouped_data, vd, metadata_dict) ==
    LET opened == IF \E k \in DOMAIN grouped_data : grouped_data[k].key = vd.series_id
                  THEN grouped_data
                  ELSE Append(grouped_data,
                              [key |-> vd.series_id,
                               metadata |-> MetadataBlock(vd.series_id,
                                                          vd.series_id \in metadata_dict),
                               value_data_list |-> <<>>])
    IN  [k \in DOMAIN opened |->
            IF opened[k].key = vd.series_id
            THEN [opened[k] EXCEPT !.value_data_list = Append(@, valueDataResponse(vd))]
            ELSE opened[k]]

RECURSIVE GroupLoop(_, _, _)
GroupLoop(grouped_data, rows, metadata_dict) ==
    IF Len(rows) = 0 THEN grouped_data
    ELSE GroupLoop(GroupOne(grouped_data, Head(rows), metadata_dict), Tail(rows), metadata_dict)

\* the grouped response: one valueDataCombinedResponse per entry of grouped_data
GroupedResponse(rows, metadata_dict) ==
    LET grouped_data == GroupLoop(<<>>, rows, metadata_dict)
    IN  [k \in DOMAIN grouped_data |->
            [meta_series_data |-> grouped_data[k].metadata,
             value_data |-> grouped_data[k].value_data_list]]

----------------------------------------------------------------------------
(* The relational tables: initial content *)

\* requests served concurrently by the relational endpoints
Clients == {1, 2}

\* the mutable columns of a seeded row of meta_series
RegistryRow(id) ==
    [series_name |-> SeriesRows[id].series_name,
     is_active |-> SeriesRows[id].is_active,
     created_at |-> id,
     updated_at |-> id]

\* no crudBase.create in progress
NoSession ==
    [pc |-> "idle", table |-> "none", obj_in |-> None, id |-> 0, status |-> 0, body |-> None]

\* no relational operation has returned yet
NoResult == [op |-> "none", arg |-> None, status |-> 0, body |-> {}]

\* the tables as seeded, the sequences after the seeded rows, nothing in progress
RegistryIdle ==
    /\ registry = [id \in DOMAIN SeriesRows |-> RegistryRow(id)]
    /\ dependency_graph = <<>>
    /\ calculation_log = <<>>
    /\ series_id_seq = 3
    /\ dependency_id_seq = 0
    /\ calculation_id_seq = 0
    /\ utcnow = 3
    /\ session = [p \in Clients |-> NoSession]
    /\ result = NoResult

\* no keyed value-data request is being served
NoTarget == [series_id |-> 0, timestamp |-> 0, value |-> 0]

----------------------------------------------------------------------------
(* The state machine *)

NoResponse == [status |-> 0, body |-> <<>>]

----------------------------------------------------------------------------
(* Connection managers and GET /health.  A manager is initialized once    *)
(* init() has stored its engine, pool or client; the ClickHouse manager's *)
(* state is ch_client.  What a probe meets (an answer, an error of the    *)
(* driver, no answer within the timeout) is the environment's choice at    *)
(* the time of the probe.                                                  *)

ProbeOutcomes == {"ok", "error", "timeout"}

is_initialized(manager) ==
    IF manager = "clickhouse" THEN ch_client ELSE initialized[manager]

\* no health check is being served
NoHealthCheck ==
    [pc |-> "idle",
     health_status |-> [status |-> "", database |-> "", redis |-> "", clickhouse |-> ""],
     probed |-> [database |-> "none", redis |-> "none", clickhouse |-> "none"],
     status_code |-> 0]

\* what the operations of this section leave alone
HealthFrame ==
    UNCHANGED <<meta_series, value_data, pc, entry, request, now, conditions, params,
                series_ids_filter, value_data_list, response, trace, target,
                registry_vars, schema, alembic_version, migration,
                _initialized, _enum_cache, global_enums>>

\* init() of a connection manager; clickhouse_connect.get_client or
\* create_engine may raise, and then the manager stays uninitialized
init(manager) ==
    /\ ~is_initialized(manager)
    /\ IF manager = "clickhouse"
          THEN ch_client' = TRUE /\ UNCHANGED initialized
          ELSE initialized' = [initialized EXCEPT ![manager] = TRUE]
               /\ UNCHANGED ch_client
    /\ UNCHANGED health
    /\ HealthFrame

\* close() of the Redis and of the ClickHouse manager; the database manager
\* has none
close(manager) ==
    /\ manager \in {"redis", "clickhouse"}
    /\ is_initialized(manager)
    /\ IF manager = "clickhouse"
          THEN ch_client' = FALSE /\ UNCHANGED initialized
          ELSE initialized' = [initialized EXCEPT ![manager] = FALSE]
               /\ UNCHANGED ch_client
    /\ UNCHANGED health
    /\ HealthFrame

\* what the check function of a manager meets
Probed(manager, outcome) ==
    IF is_initialized(manager) THEN outcome ELSE "uninitialized"

\* the exception a check function raises: RuntimeError without an
\* initialized manager, asyncio.TimeoutError from wait_for, the driver's
\* error otherwise; _sync_health_check of ClickHouse re-raises every error
\* of the probe as a RuntimeError
Raised(manager, outcome) ==
    CASE Probed(manager, outcome) = "ok" -> "none"
      [] Probed(manager, outcome) = "uninitialized" -> "RuntimeError"
      [] Probed(manager, outcome) = "timeout" -> "TimeoutError"
      [] OTHER -> IF manager = "clickhouse" THEN "RuntimeError" ELSE "DriverError"

\* GET /health is called
health_check ==
    /\ health.pc \in {"idle", "done"}
    /\ health' = [NoHealthCheck EXCEPT
                     !.pc = "database",
                     !.health_status = [status |-> "healthy", database |-> "connected",
                                        redis |-> "unknown", clickhouse |-> "unknown"]]
    /\ UNCHANGED <<initialized, ch_client>>
    /\ HealthFrame

\* variant: a failing database check is reported and the check goes on
db_health_check_Tolerant(outcome) ==
    /\ health.pc = "database"
    /\ health' = [health EXCEPT
                     !.pc = "redis",
                     !.probed["database"] = Probed("database", outcome),
                     !.health_status.database =
                         IF Raised("database", outcome) # "none"
                            THEN "disconnected" ELSE "connected"]
    /\ UNCHANGED <<initialized, ch_client>>
    /\ HealthFrame

\* the database is checked: any exception is answered with 503
db_health_check(outcome) ==
    /\ health.pc = "database"
    /\ health' =
          IF Raised("database", outcome) # "none"
             THEN [health EXCEPT
                      !.pc = "done",
                      !.probed["database"] = Probed("database", outcome),
                      !.health_status = [status |-> "unhealthy",
                                         database |-> "disconnected",
                                         redis |-> "", clickhouse |-> ""],
                      !.status_code = 503]
             ELSE [health EXCEPT
                      !.pc = "redis",
                      !.probed["database"] = Probed("database", outcome)]
    /\ UNCHANGED <<initialized, ch_client>>
    /\ HealthFrame

\* the try/except around the check of an optional store
OptionalStatus(exception) ==
    CASE exception = "none" -> "connected"
      [] exception = "RuntimeError" -> "not_configured"
      [] OTHER -> "disconnected"

\* Redis is checked
redis_health_check(outcome) ==
    /\ health.pc = "redis"
    /\ health' = [health EXCEPT
                     !.pc = "clickhouse",
                     !.probed["redis"] = Probed("redis", outcome),
                     !.health_status.redis = OptionalStatus(Raised("redis", outcome))]
    /\ UNCHANGED <<initialized, ch_client>>
    /\ HealthFrame

\* ClickHouse is checked and healthStatusResponse is returned
clickhouse_health_check(outcome) ==
    /\ health.pc = "clickhouse"
    /\ health' = [health EXCEPT
                     !.pc = "done",
                     !.probed["clickhouse"] = Probed("clickhouse", outcome),
                     !.health_status.clickhouse =
                         OptionalStatus(Raised("clickhouse", outcome)),
                     !.status_code = 200]
    /\ UNCHANGED <<initialized, ch_client>>
    /\ HealthFrame

----------------------------------------------------------------------------
(* Alembic revision 8be1a0f527f3: ticker_identifier is renamed to          *)
(* ticker_source.  The schema is the part of the PostgreSQL catalogue the  *)
(* revision touches.  An operation is executed as PostgreSQL executes its  *)
(* DDL: it fails when an object it names does not exist under that name,   *)
(* and a rename carries the indexes and foreign keys of the renamed object *)
(* along.                                                                  *)

rename_table(old_table_name, new_table_name) ==
    [op |-> "rename_table", table |-> old_table_name, new_name |-> new_table_name]

alter_column(table_name, column_name, new_column_name) ==
    [op |-> "alter_column", table |-> table_name, column |-> column_name,
     new_name |-> new_column_name]

drop_index(index_name, table_name) ==
    [op |-> "drop_index", name |-> index_name, table |-> table_name]

create_index(index_name, table_name, columns, unique) ==
    [op |-> "create_index", name |-> index_name, table |-> table_name,
     columns |-> columns, unique |-> unique]

drop_constraint(constraint_name, table_name) ==
    [op |-> "drop_constraint", name |-> constraint_name, table |-> table_name]

create_foreign_key(name, source_table, referent_table, local_cols, remote_cols) ==
    [op |-> "create_foreign_key", name |-> name, table |-> source_table,
     referent |-> referent_table, columns |-> local_cols, remote_cols |-> remote_cols]

\* variant: the indexes of the lookup table are dropped before the table and
\* its columns are renamed
upgrade_IndexesFirst ==
    << drop_index("ix_ticker_identifier_lookup_name", "ticker_identifier_lookup"),
       drop_index("ix_ticker_identifier_lookup_code", "ticker_identifier_lookup"),
       drop_index("uq_ticker_identifier_lookup_name", "ticker_identifier_lookup"),
       rename_table("ticker_identifier_lookup", "ticker_source_lookup"),
       alter_column("ticker_source_lookup", "ticker_identifier_id", "ticker_source_id"),
       alter_column("ticker_source_lookup", "ticker_identifier_name",
                    "ticker_source_name"),
       alter_column("ticker_source_lookup", "ticker_identifier_code",
                    "ticker_source_code"),
       create_index("ix_ticker_source_lookup_name", "ticker_source_lookup",
                    <<"ticker_source_name">>, FALSE),
       create_index("ix_ticker_source_lookup_code", "ticker_source_lookup",
                    <<"ticker_source_code">>, FALSE),
       create_index("uq_ticker_source_lookup_name", "ticker_source_lookup",
                    <<"ticker_source_name">>, TRUE),
       alter_column("meta_series", "ticker_identifier_id", "ticker_source_id"),
       drop_index("ix_meta_series_ticker_identifier", "meta_series"),
       create_index("ix_meta_series_ticker_source", "meta_series",
                    <<"ticker_source_id">>, FALSE),
       drop_constraint("fk_meta_series_ticker_identifier", "meta_series"),
       create_foreign_key("fk_meta_series_ticker_source", "meta_series",
                          "ticker_source_lookup", <<"ticker_source_id">>,
                          <<"ticker_source_id">>) >>

upgrade ==
    << rename_table("ticker_identifier_lookup", "ticker_source_lookup"),
       alter_column("ticker_source_lookup", "ticker_identifier_id", "ticker_source_id"),
       alter_column("ticker_source_lookup", "ticker_identifier_name",
                    "ticker_source_name"),
       alter_column("ticker_source_lookup", "ticker_identifier_code",
                    "ticker_source_code"),
       drop_index("ix_ticker_identifier_lookup_name", "ticker_source_lookup"),
       drop_index("ix_ticker_identifier_lookup_code", "ticker_source_lookup"),
       drop_index("uq_ticker_identifier_lookup_name", "ticker_source_lookup"),
       create_index("ix_ticker_source_lookup_name", "ticker_source_lookup",
                    <<"ticker_source_name">>, FALSE),
       create_index("ix_ticker_source_lookup_code", "ticker_source_lookup",
                    <<"ticker_source_code">>, FALSE),
       create_index("uq_ticker_source_lookup_name", "ticker_source_lookup",
                    <<"ticker_source_name">>, TRUE),
       alter_column("meta_series", "ticker_identifier_id", "ticker_source_id"),
       drop_index("ix_meta_series_ticker_identifier", "meta_series"),
       create_index("ix_meta_series_ticker_source", "meta_series",
                    <<"ticker_source_id">>, FALSE),
       drop_constraint("fk_meta_series_ticker_identifier", "meta_series"),
       create_foreign_key("fk_meta_series_ticker_source", "meta_series",
                          "ticker_source_lookup", <<"ticker_source_id">>,
                          <<"ticker_source_id">>) >>

downgrade ==
    << drop_constraint("fk_meta_series_ticker_source", "meta_series"),
       create_foreign_key("fk_meta_series_ticker_identifier", "meta_series",
                          "ticker_identifier_lookup", <<"ticker_identifier_id">>,
                          <<"ticker_identifier_id">>),
       drop_index("ix_meta_series_ticker_source", "meta_series"),
       create_index("ix_meta_series_ticker_identifier", "meta_series",
                    <<"ticker_identifier_id">>, FALSE),
       alter_column("meta_series", "ticker_source_id", "ticker_identifier_id"),
       drop_index("uq_ticker_source_lookup_name", "ticker_source_lookup"),
       drop_index("ix_ticker_source_lookup_code", "ticker_source_lookup"),
       drop_index("ix_ticker_source_lookup_name", "ticker_source_lookup"),
       create_index("uq_ticker_identifier_lookup_name", "ticker_source_lookup",
                    <<"ticker_identifier_name">>, TRUE),
       create_index("ix_ticker_identifier_lookup_code", "ticker_source_lookup",
                    <<"ticker_identifier_code">>, FALSE),
       create_index("ix_ticker_identifier_lookup_name", "ticker_source_lookup",
                    <<"ticker_identifier_name">>, FALSE),
       alter_column("ticker_source_lookup", "ticker_source_code",
                    "ticker_identifier_code"),
       alter_column("ticker_source_lookup", "ticker_source_name",
                    "ticker_identifier_name"),
       alter_column("ticker_source_lookup", "ticker_source_id",
                    "ticker_identifier_id"),
       rename_table("ticker_source_lookup", "ticker_identifier_lookup") >>

\* the revision the migration revises and the revision it defines
down_revision == "b5e74380d5ca"

revision == "8be1a0f527f3"

\* the schema at down_revision: the objects upgrade() renames or drops, as
\* downgrade() declares them
OriginalSchema ==
    [tables |-> {"ticker_identifier_lookup", "meta_series"},
     columns |-> { <<"ticker_identifier_lookup", "ticker_identifier_id">>,
                   <<"ticker_identifier_lookup", "ticker_identifier_name">>,
                   <<"ticker_identifier_lookup", "ticker_identifier_code">>,
                   <<"meta_series", "ticker_identifier_id">> },
     indexes |-> { [name |-> "ix_ticker_identifier_lookup_name",
                    table |-> "ticker_identifier_lookup",
                    columns |-> <<"ticker_identifier_name">>, unique |-> FALSE],
                   [name |-> "ix_ticker_identifier_lookup_code",
                    table |-> "ticker_identifier_lookup",
                    columns |-> <<"ticker_identifier_code">>, unique |-> FALSE],
                   [name |-> "uq_ticker_identifier_lookup_name",
                    table |-> "ticker_identifier_lookup",
                    columns |-> <<"ticker_identifier_name">>, unique |-> TRUE],
                   [name |-> "ix_meta_series_ticker_identifier",
                    table |-> "meta_series",
                    columns |-> <<"ticker_identifier_id">>, unique |-> FALSE] },
     foreign_keys |-> { [name |-> "fk_meta_series_ticker_identifier",
                         table |-> "meta_series",
                         referent |-> "ticker_identifier_lookup",
                         columns |-> <<"ticker_identifier_id">>,
                         remote_cols |-> <<"ticker_identifier_id">>] }]

\* the objects the operation names exist under these names, and the name it
\* introduces is free
Executable(o, s) ==
    LET HasColumns(table, columns) ==
            \A i \in 1..Len(columns) : <<table, columns[i]>> \in s.columns
    IN
    CASE o.op = "rename_table" ->
            o.table \in s.tables /\ o.new_name \notin s.tables
      [] o.op = "alter_column" ->
            /\ <<o.table, o.column>> \in s.columns
            /\ <<o.table, o.new_name>> \notin s.columns
      [] o.op = "drop_index" ->
            \E index \in s.indexes : index.name = o.name /\ index.table = o.table
      [] o.op = "create_index" ->
            /\ o.table \in s.tables
            /\ HasColumns(o.table, o.columns)
            /\ \A index \in s.indexes : index.name # o.name
      [] o.op = "drop_constraint" ->
            \E fk \in s.foreign_keys : fk.name = o.name /\ fk.table = o.table
      [] o.op = "create_foreign_key" ->
            /\ o.table \in s.tables /\ HasColumns(o.table, o.columns)
            /\ o.referent \in s.tables /\ HasColumns(o.referent, o.remote_cols)
            /\ \A fk \in s.foreign_keys : fk.name # o.name

\* the schema after the operation
Execute(o, s) ==
    LET Renamed(name, old, new) == IF name = old THEN new ELSE name
        RenamedColumns(table, columns) ==
            IF table = o.table
               THEN [i \in 1..Len(columns) |-> Renamed(columns[i], o.column, o.new_name)]
               ELSE columns
    IN
    CASE o.op = "rename_table" ->
            [tables |-> {Renamed(t, o.table, o.new_name) : t \in s.tables},
             columns |-> {<<Renamed(c[1], o.table, o.new_name), c[2]>> : c \in s.columns},
             indexes |-> {[index EXCEPT !.table = Renamed(@, o.table, o.new_name)] :
                             index \in s.indexes},
             foreign_keys |-> {[fk EXCEPT !.table = Renamed(@, o.table, o.new_name),
                                          !.referent = Renamed(@, o.table, o.new_name)] :
                                  fk \in s.foreign_keys}]
      [] o.op = "alter_column" ->
            [s EXCEPT
                !.columns = {IF c = <<o.table, o.column>> THEN <<o.table, o.new_name>>
                                                          ELSE c : c \in s.columns},
                !.indexes = {[index EXCEPT
                                 !.columns = RenamedColumns(index.table, @)] :
                                index \in s.indexes},
                !.foreign_keys =
                    {[fk EXCEPT !.columns = RenamedColumns(fk.table, @),
                                !.remote_cols = RenamedColumns(fk.referent, @)] :
                        fk \in s.foreign_keys}]
      [] o.op = "drop_index" ->
            [s EXCEPT !.indexes = {index \in @ : index.name # o.name}]
      [] o.op = "create_index" ->
            [s EXCEPT !.indexes = @ \cup {[name |-> o.name, table |-> o.table,
                                           columns |-> o.columns,
                                           unique |-> o.unique]}]
      [] o.op = "drop_constraint" ->
            [s EXCEPT !.foreign_keys = {fk \in @ : fk.name # o.name}]
      [] o.op = "create_foreign_key" ->
            [s EXCEPT !.foreign_keys =
                          @ \cup {[name |-> o.name, table |-> o.table,
                                   referent |-> o.referent, columns |-> o.columns,
                                   remote_cols |-> o.remote_cols]}]

\* the schema after the first n operations of a migration
RECURSIVE After(_, _, _)
After(operations, n, s) ==
    IF n = 0 THEN s ELSE Execute(operations[n], After(operations, n - 1, s))

\* no alembic run is in progress
NoMigration == [direction |-> "none", step |-> 0, ddl |-> OriginalSchema, failed |-> FALSE]

\* what the operations of this section leave alone
SchemaFrame ==
    UNCHANGED <<meta_series, value_data, ch_client, pc, entry, request, now, conditions,
                params, series_ids_filter, value_data_list, response, trace, target,
                registry_vars, initialized, health>>

\* alembic upgrade head / alembic downgrade -1: the run starts from the
\* schema of the database
alembic(direction) ==
    /\ migration.direction = "none"
    /\ alembic_version = IF direction = "upgrade" THEN down_revision ELSE revision
    /\ migration' = [direction |-> direction, step |-> 1, ddl |-> schema,
                     failed |-> FALSE]
    /\ UNCHANGED <<schema, alembic_version, _initialized, _enum_cache, global_enums>>
    /\ SchemaFrame

\* the next operation of the run is executed.  An operation that fails ends
\* the run: with transactional DDL the schema stays as it was before the run,
\* without it the operations executed so far stay in place.  After the last
\* operation the run is committed and the revision is recorded.
run_migration ==
    /\ migration.direction \in {"upgrade", "downgrade"}
    /\ LET operations == IF migration.direction = "upgrade" THEN upgrade ELSE downgrade
           o == operations[migration.step]
       IN  IF ~Executable(o, migration.ddl)
              THEN /\ migration' = [NoMigration EXCEPT !.failed = TRUE]
                   /\ \E transactional_ddl \in BOOLEAN :
                         schema' = IF transactional_ddl THEN schema ELSE migration.ddl
                   /\ UNCHANGED alembic_version
              ELSE IF migration.step < Len(operations)
                      THEN /\ migration' = [migration EXCEPT
                                               !.step = @ + 1,
                                               !.ddl = Execute(o, migration.ddl)]
                           /\ UNCHANGED <<schema, alembic_version>>
                      ELSE /\ migration' = NoMigration
                           /\ schema' = Execute(o, migration.ddl)
                           /\ alembic_version' =
                                 IF migration.direction = "upgrade" THEN revision
                                                                    ELSE down_revision
    /\ UNCHANGED <<_initialized, _enum_cache, global_enums>>
    /\ SchemaFrame

----------------------------------------------------------------------------
(* Dynamic enums (app/utils/dynamic_enums.py).  An enum class is a record: *)
(* the static fallback of its dimension, or the members built from the     *)
(* values of the lookup table, each a <<key, value>> pair.                 *)

\* the keys of LOOKUP_TABLE_CONFIG, in the order initializeDynamicEnums
\* assigns the global enums
LOOKUP_TABLE_CONFIG ==
    << "asset_class", "sub_asset_class", "product_type", "structure_type",
       "market_segment", "data_type", "field_type", "ticker_source",
       "ticker_source_code" >>

\* config["fallback_enum"]
fallback_enum == [dynamic |-> FALSE, members |-> <<>>]

\* what the lookup tables may hold, as sorted(set(values)) returns it: no
\* row, one name, two names that differ in a separator only
LookupValues ==
    { <<>>,
      << Str_Ga >>,
      << <<"g", " ", "b">>, <<"g", "-", "b">> >> }

\* the contents of the lookup tables at the time of a call: one dimension
\* may differ from the others
LookupTables ==
    { [key \in Range(LOOKUP_TABLE_CONFIG) |-> IF key = odd THEN values ELSE others] :
         odd \in Range(LOOKUP_TABLE_CONFIG), values \in LookupValues,
         others \in LookupValues }

\* value.upper() with " ", "-", "." and every other non-alphanumeric
\* character replaced by "_"; VALUE_ before a leading digit; UNKNOWN for ""
_normalizeEnumKey(value) ==
    LET Upper(c) == CASE c = "g" -> "G"
                      [] c = "a" -> "A"
                      [] c = "b" -> "B"
                      [] OTHER -> c
        isalnum(c) == c \in {"G", "A", "B"} \/ IsDigit(c)
        key == [i \in 1..Len(value) |->
                   IF isalnum(Upper(value[i])) \/ value[i] = "_"
                      THEN Upper(value[i]) ELSE "_"]
    IN  IF key = <<>> THEN <<"U", "N", "K", "N", "O", "W", "N">>
        ELSE IF IsDigit(key[1]) THEN <<"V", "A", "L", "U", "E", "_">> \o key
        ELSE key

\* the query of _fetchLookupValues: an exception (here: the table or the
\* column does not exist in the schema) is logged and [] is returned
_fetchLookupValues(lookup_key, values) ==
    LET name_field == [ticker_source |-> "ticker_source_name",
                       ticker_source_code |-> "ticker_source_code"]
    IN  IF /\ lookup_key \in DOMAIN name_field
           /\ <<"ticker_source_lookup", name_field[lookup_key]>> \notin schema.columns
           THEN <<>>
           ELSE values

\* Enum(enum_name, enum_members_list, type=str) raises TypeError when two
\* members have the same key
_createDynamicEnum(values) ==
    LET enum_members_list ==
            [i \in 1..Len(values) |-> <<_normalizeEnumKey(values[i]), values[i]>>]
    IN  IF values = <<>>
           THEN [raised |-> FALSE, enum |-> fallback_enum]
        ELSE IF \E i, j \in 1..Len(values) :
                   i < j /\ enum_members_list[i][1] = enum_members_list[j][1]
           THEN [raised |-> TRUE, enum |-> fallback_enum]
        ELSE [raised |-> FALSE,
              enum |-> [dynamic |-> TRUE, members |-> enum_members_list]]

\* the cached enum, or the enum built from the table and then cached; an
\* exception of the build leaves the cache as it is
_getOrCreateEnum(lookup_key, values, cache) ==
    IF lookup_key \in DOMAIN cache
       THEN [raised |-> FALSE, enum |-> cache[lookup_key], cache |-> cache]
       ELSE LET built == _createDynamicEnum(_fetchLookupValues(lookup_key, values))
            IN  [raised |-> built.raised, enum |-> built.enum,
                 cache |-> IF built.raised THEN cache
                           ELSE cache @@ (lookup_key :> built.enum)]

\* what the operations of this section leave alone
EnumFrame ==
    UNCHANGED <<meta_series, value_data, ch_client, pc, entry, request, now, conditions,
                params, series_ids_filter, value_data_list, response, trace, target,
                registry_vars, initialized, health, schema, alembic_version, migration>>

\* getDynamicEnum(lookup_key) without a session
getDynamicEnum(lookup_key, values) ==
    /\ LET got == _getOrCreateEnum(lookup_key, values, _enum_cache)
       IN  _enum_cache' = got.cache
    /\ UNCHANGED <<_initialized, global_enums>>
    /\ EnumFrame

\* the assignments of initializeDynamicEnums from the k-th on: each global is
\* assigned as soon as its enum is built, and the first exception ends them
RECURSIVE AssignFrom(_, _, _, _)
AssignFrom(k, tables, cache, globals) ==
    IF k > Len(LOOKUP_TABLE_CONFIG)
       THEN [cache |-> cache, globals |-> globals]
       ELSE LET lookup_key == LOOKUP_TABLE_CONFIG[k]
                got == _getOrCreateEnum(lookup_key, tables[lookup_key], cache)
            IN  IF got.raised
                   THEN [cache |-> cache, globals |-> globals]
                   ELSE AssignFrom(k + 1, tables, got.cache,
                                   [globals EXCEPT ![lookup_key] = got.enum])

\* initializeDynamicEnums() without a session: get_session_context() raises
\* when the database manager is not initialized; every exception is logged
\* and _initialized is set
initializeDynamicEnums(tables) ==
    /\ IF _initialized
          THEN UNCHANGED <<_initialized, _enum_cache, global_enums>>
          ELSE /\ _initialized' = TRUE
               /\ IF ~initialized["database"]
                     THEN UNCHANGED <<_enum_cache, global_enums>>
                     ELSE LET assigned == AssignFrom(1, tables, _enum_cache, global_enums)
                          IN  /\ _enum_cache' = assigned.cache
                              /\ global_enums' = assigned.globals
    /\ EnumFrame

\* the connection managers, the schema and the enums before the application
\* has started: nothing is initialized, the database is at down_revision
SystemIdle ==
    /\ initialized = [database |-> FALSE, redis |-> FALSE]
    /\ health = NoHealthCheck
    /\ schema = OriginalSchema
    /\ alembic_version = down_revision
    /\ migration = NoMigration
    /\ _initialized = FALSE
    /\ _enum_cache = <<>>
    /\ global_enums = [key \in Range(LOOKUP_TABLE_CONFIG) |-> fallback_enum]

----------------------------------------------------------------------------
(* Requests *)

\* the request-scoped variables when no request is being served
RequestCleared ==
    /\ pc = "idle"
    /\ entry = "none"
    /\ request = DefaultFilter
    /\ now = 0
    /\ conditions = <<>>
    /\ params = NoParams
    /\ series_ids_filter = {}
    /\ value_data_list = <<>>
    /\ response = NoResponse
    /\ trace = <<>>

Init ==
    /\ meta_series = DOMAIN SeriesRows
    /\ value_data = SeededRows
    /\ ch_client \in BOOLEAN
    /\ RequestCleared
    /\ target = NoTarget
    /\ RegistryIdle
    /\ SystemIdle

\* an operation returns or raises: the response is recorded
Finish(status, body) ==
    /\ pc' = "done"
    /\ response' = [status |-> status, body |-> body]

\* get_multi_with_filters up to its first await: the ClickHouse conditions
\* are built, then the metadata test decides whether a resolution query runs
BeginQuery(req, clock) ==
    LET built == _build_clickhouse_conditions(req, clock)
    IN  /\ now' = clock
        /\ conditions' = built.conditions
        /\ params' = built.params
        /\ pc' = IF _has_metadata_filters(req) THEN "resolve" ELSE "scan"
        /\ UNCHANGED <<series_ids_filter, value_data_list, response, trace>>

\* an availability check that never reports the store unavailable
ClickHouseUnavailable_Never == FALSE

\* not _clickhouse_connection_manager.is_initialized() or
\* _clickhouse_connection_manager.client is None
ClickHouseUnavailable == ~ch_client

\* GET /value-data/: validation, availability check, then the query
get_value_data ==
    /\ pc = "idle"
    /\ \E req \in Requests, tod \in TimesOfDay :
          /\ entry' = "get_value_data"
          /\ request' = req
          /\ IF ~series_name_valid(req)
             THEN /\ Finish(400, <<>>)
                  /\ UNCHANGED <<now, conditions, params, series_ids_filter,
                                 value_data_list, trace>>
             ELSE IF ClickHouseUnavailable
             THEN /\ Finish(503, <<>>)
                  /\ UNCHANGED <<now, conditions, params, series_ids_filter,
                                 value_data_list, trace>>
             ELSE BeginQuery(req, Today * SecondsPerDay + tod)
    /\ UNCHANGED <<meta_series, value_data, ch_client, system_vars>>
    /\ UNCHANGED <<target, registry_vars>>

\* crudValueData.get_multi_with_filters called directly with a filter object
get_multi_with_filters ==
    /\ pc = "idle"
    /\ ch_client
    /\ \E req \in Requests, tod \in TimesOfDay :
          /\ IsNone(req.limit)
          /\ entry' = "get_multi_with_filters"
          /\ request' = req
          /\ BeginQuery(req, Today * SecondsPerDay + tod)
    /\ UNCHANGED <<meta_series, value_data, ch_client, system_vars>>
    /\ UNCHANGED <<target, registry_vars>>

\* ResolveSeriesIds without the test "if not series_ids_filter: return []"
ResolveSeriesIds_NoShortCircuit ==
    /\ pc = "resolve"
    /\ LET ids == _get_filtered_series_ids(meta_series, request)
       IN  /\ series_ids_filter' = ids
           /\ trace' = Append(trace, "pg_resolve")
           /\ conditions' = Append(conditions, Condition(Str_series_id, "IN", "", ids))
           /\ pc' = "scan"
           /\ UNCHANGED response
    /\ UNCHANGED <<meta_series, value_data, ch_client, system_vars, entry, request, now, params,
                   value_data_list>>
    /\ UNCHANGED <<target, registry_vars>>

\* await self._get_filtered_series_ids(db, filter_obj), and the test of its
\* result: an empty list returns [] (which the listing turns into [] too)
ResolveSeriesIds ==
    /\ pc = "resolve"
    /\ LET ids == _get_filtered_series_ids(meta_series, request)
       IN  /\ series_ids_filter' = ids
           /\ trace' = Append(trace, "pg_resolve")
           /\ IF ids = {}
              THEN /\ Finish(200, <<>>)
                   /\ UNCHANGED conditions
              ELSE /\ conditions' = Append(conditions, Condition(Str_series_id, "IN", "", ids))
                   /\ pc' = "scan"
                   /\ UNCHANGED response
    /\ UNCHANGED <<meta_series, value_data, ch_client, system_vars, entry, request, now, params,
                   value_data_list>>
    /\ UNCHANGED <<target, registry_vars>>

\* await loop.run_in_executor(None, _sync_query) and the conversion of the
\* rows; the direct call returns them, the listing goes on to the metadata
ScanValueData ==
    /\ pc = "scan"
    /\ \E rows \in QueryResults(value_data, conditions, params,
                                _build_order_by_clause(request)) :
          /\ value_data_list' = rows
          /\ trace' = Append(trace, "ch_scan")
          /\ IF entry \in {"get_multi_with_filters", "get_derived"}
             THEN Finish(200, rows)
             ELSE IF entry = "get_derived_value_data"
             THEN Finish(200, [i \in DOMAIN rows |-> valueDataResponse(rows[i])])
             ELSE IF Len(rows) = 0
             THEN Finish(200, <<>>)
             ELSE pc' = "metadata" /\ UNCHANGED response
    /\ UNCHANGED <<meta_series, value_data, ch_client, system_vars, entry, request, now,
                   conditions, params, series_ids_filter>>
    /\ UNCHANGED <<target, registry_vars>>

\* await session.execute(metadata_query), then the grouping loop
FetchMetadataAndGroup ==
    /\ pc = "metadata"
    /\ LET series_ids == {value_data_list[i].series_id : i \in DOMAIN value_data_list}
           metadata_dict == series_ids \cap meta_series
       IN  /\ trace' = Append(trace, "pg_metadata")
           /\ Finish(200, GroupedResponse(value_data_list, metadata_dict))
    /\ UNCHANGED <<meta_series, value_data, ch_client, system_vars, entry, request, now,
                   conditions, params, series_ids_filter, value_data_list>>
    /\ UNCHANGED <<target, registry_vars>>

\* the response has been sent; the next request may be served
Return ==
    /\ pc = "done"
    /\ pc' = "idle"
    /\ entry' = "none"
    /\ request' = DefaultFilter
    /\ now' = 0
    /\ conditions' = <<>>
    /\ params' = NoParams
    /\ series_ids_filter' = {}
    /\ value_data_list' = <<>>
    /\ response' = NoResponse
    /\ trace' = <<>>
    /\ UNCHANGED <<meta_series, value_data, ch_client, system_vars>>
    /\ UNCHANGED <<target, registry_vars>>

\* crudValueData.create: one row is inserted into value_data
create ==
    /\ ch_client
    /\ Len(value_data) < MaxRows
    /\ \E obj_in \in InsertRows : value_data' = Append(value_data, obj_in)
    /\ UNCHANGED <<meta_series, ch_client, system_vars, pc, entry, request, now, conditions, params,
                   series_ids_filter, value_data_list, response, trace>>
    /\ UNCHANGED <<target, registry_vars>>

\* crudBase.delete on meta_series: the row is removed
delete ==
    /\ \E id \in meta_series :
          /\ meta_series' = meta_series \ {id}
          /\ registry' = [k \in DOMAIN registry \ {id} |-> registry[k]]
    /\ UNCHANGED <<value_data, ch_client, system_vars, pc, entry, request, now, conditions, params,
                   series_ids_filter, value_data_list, response, trace>>
    /\ UNCHANGED <<target, dependency_graph, calculation_log, series_id_seq,
                   dependency_id_seq, calculation_id_seq, utcnow, session, result>>

Next ==
    \/ get_value_data
    \/ get_multi_with_filters
    \/ ResolveSeriesIds
    \/ ScanValueData
    \/ FetchMetadataAndGroup
    \/ Return
    \/ create
    \/ delete

Spec == Init /\ [][Next]_vars

----------------------------------------------------------------------------
(* Properties of the Filter/Query Engine *)

\* the request has queried the store named by access
Accessed(access) == \E i \in DOMAIN trace : trace[i] = access

\* the request supplies at least one metadata predicate with a value: a
\* boolean flag (True or False), a non-blank pattern, or a list that names
\* something
CarriesMetadataPredicate(f) ==
    \/ ~IsNone(f.is_active)
    \/ ~IsNone(f.is_derived)
    \/ ~IsNone(f.is_latest)
    \/ ~IsNone(f.series_name__ilike) /\ strip(Val(f.series_name__ilike)) # <<>>
    \/ ~IsNone(f.series_name__in)
         /\ \E i \in DOMAIN Val(f.series_name__in) : strip(Val(f.series_name__in)[i]) # <<>>
    \/ ~IsNone(f.ticker__ilike) /\ strip(Val(f.ticker__ilike)) # <<>>
    \/ ~IsNone(f.asset_class_name__in) /\ Val(f.asset_class_name__in) # <<>>
    \/ ~IsNone(f.product_type_name__in) /\ Val(f.product_type_name__in) # <<>>

\* C1: once the metadata-resolution pass of a request has returned no
\* series_id, the Observation Store is not queried by that request and the
\* operation has returned the empty sequence.
C1_EmptyResolutionShortCircuits ==
    (Accessed("pg_resolve") /\ series_ids_filter = {}) =>
        /\ ~Accessed("ch_scan")
        /\ pc = "done"
        /\ response = [status |-> 200, body |-> <<>>]

\* a request with a metadata predicate whose resolution found no series
C1_Witness ==
    /\ pc = "done"
    /\ CarriesMetadataPredicate(request)
    /\ trace = <<"pg_resolve">>
    /\ series_ids_filter = {}
    /\ Len(value_data) > 0

\* C2: a request that carries a metadata predicate and scans the Observation
\* Store has completed the resolution query first, and every row the scan
\* returned has a series_id of the resolved set.
C2_ResolutionPrecedesScan ==
    (CarriesMetadataPredicate(request) /\ Accessed("ch_scan")) =>
        /\ Len(trace) >= 2
        /\ trace[1] = "pg_resolve"
        /\ trace[2] = "ch_scan"
        /\ \A i \in DOMAIN value_data_list :
              value_data_list[i].series_id \in series_ids_filter

\* the (timestamp, value) pairs of the rows of one series, in the order of rows
RECURSIVE RowsOfSeries(_, _)
RowsOfSeries(rows, sid) ==
    IF Len(rows) = 0 THEN <<>>
    ELSE (IF Head(rows).series_id = sid
          THEN << [timestamp |-> Head(rows).timestamp, value |-> Head(rows).value] >>
          ELSE <<>>) \o RowsOfSeries(Tail(rows), sid)

\* C3: when the primary listing has returned after its scan, the response
\* holds one metadata block per distinct series_id of the scan result R, and
\* the block of a series holds exactly the rows of R with that series_id, in
\* their order in R.
C3_GroupingComplete ==
    (entry = "get_value_data" /\ pc = "done" /\ Accessed("ch_scan")) =>
        LET body == response.body
            S == {value_data_list[i].series_id : i \in DOMAIN value_data_list}
        IN  /\ Len(body) = Cardinality(S)
            /\ \A k \in DOMAIN body : body[k].meta_series_data.series_id \in S
            /\ \A j, k \in DOMAIN body :
                  j # k => body[j].meta_series_data.series_id # body[k].meta_series_data.series_id
            /\ \A k \in DOMAIN body :
                  body[k].value_data =
                      RowsOfSeries(value_data_list, body[k].meta_series_data.series_id)

\* a scan result whose rows of one series are separated by a row of another
C3_Witness ==
    /\ entry = "get_value_data"
    /\ pc = "done"
    /\ Len(response.body) = 2
    /\ Len(value_data_list) >= 3
    /\ value_data_list[1].series_id = value_data_list[3].series_id
    /\ value_data_list[1].series_id # value_data_list[2].series_id

\* neither a non-blank series_name__ilike nor a series_name__in with a
\* non-blank name
NoSeriesNamePredicate(f) ==
    /\ IsNone(f.series_name__ilike) \/ strip(Val(f.series_name__ilike)) = <<>>
    /\ IsNone(f.series_name__in)
         \/ \A i \in DOMAIN Val(f.series_name__in) : strip(Val(f.series_name__in)[i]) = <<>>

C5_MetadataPredicateHonoured ==
    (CarriesMetadataPredicate(request) /\ Accessed("ch_scan")) =>
        /\ Accessed("pg_resolve")
        /\ \A i \in DOMAIN value_data_list :
              LET series == SeriesRows[value_data_list[i].series_id]
              IN  /\ ~IsNone(request.is_active) => series.is_active = Val(request.is_active)
                  /\ ~IsNone(request.is_derived) => series.is_derived = Val(request.is_derived)

\* C6: a singular series_id or singular lookup name supplied to the listing
\* restricts the result: every returned observation has that series_id and
\* belongs to a series classified under that name.
C6_SingularFiltersRestrict ==
    (entry = "get_value_data" /\ Accessed("ch_scan")) =>
        \A i \in DOMAIN value_data_list :
            LET series == SeriesRows[value_data_list[i].series_id]
            IN  /\ ~IsNone(request.series_id) =>
                      value_data_list[i].series_id = Val(request.series_id)
                /\ ~IsNone(request.asset_class_name) =>
                      RelatedName(series, "asset_class") = request.asset_class_name
                /\ ~IsNone(request.product_type_name) =>
                      RelatedName(series, "product_type") = request.product_type_name

\* C7: a listing called with a limit returns at most limit observations.
C7_LimitHonoured ==
    (Accessed("ch_scan") /\ ~IsNone(request.limit)) =>
        Len(value_data_list) <= Val(request.limit)

\* a parsable timestamp__ago was supplied
AgoParsable(f) ==
    ~IsNone(f.timestamp__ago) /\ ~IsNone(pytimeparse2_parse(Val(f.timestamp__ago)))

\* C8: when a request with a parsable timestamp__ago has scanned the
\* Observation Store, every returned observation has a timestamp on or after
\* the date of (now - duration).
C8_AgoRestrictsScan ==
    (Accessed("ch_scan") /\ AgoParsable(request)) =>
        \A i \in DOMAIN value_data_list :
            value_data_list[i].timestamp >=
                DateOf(now - Val(pytimeparse2_parse(Val(request.timestamp__ago))))

\* the units of the timestamp__ago grammar
AgoUnits == {<<"y">>, <<"m", "o">>, <<"w">>, <<"d">>, <<"h">>, <<"m">>, <<"s">>}

\* a timestamp__ago was supplied that is not <integer><unit>
AgoUnparsable(f) ==
    /\ ~IsNone(f.timestamp__ago)
    /\ ~\E n \in 1..Len(Val(f.timestamp__ago)) :
          /\ \A i \in 1..n : IsDigit(Val(f.timestamp__ago)[i])
          /\ SubSeq(Val(f.timestamp__ago), n + 1, Len(Val(f.timestamp__ago))) \in AgoUnits

WithoutAgo(f) == [f EXCEPT !.timestamp__ago = None]

\* the WHERE conditions of the scan of filter f once ids have been resolved
ScanConditions(f, clock, ids) ==
    IF _has_metadata_filters(f)
    THEN Append(_build_clickhouse_conditions(f, clock).conditions,
                Condition(Str_series_id, "IN", "", ids))
    ELSE _build_clickhouse_conditions(f, clock).conditions

\* C9: the scan of a request whose timestamp__ago is unparsable returns a
\* result of the query that the same filter without timestamp__ago issues
\* (same conditions, parameters and order), and the operation then ends
\* without an error.
C9_UnparsableAgoDropped ==
    [][ (pc = "scan" /\ pc' # "scan" /\ AgoUnparsable(request)) =>
            /\ value_data_list' \in
                  QueryResults(value_data,
                               ScanConditions(WithoutAgo(request), now, series_ids_filter),
                               _build_clickhouse_conditions(WithoutAgo(request), now).params,
                               _build_order_by_clause(WithoutAgo(request)))
            /\ pc' = "done" => response'.status = 200
      ]_vars

\* a listing with an unparsable timestamp__ago that returned some rows of the
\* store but not all
C9_Witness ==
    /\ entry = "get_value_data"
    /\ pc = "done"
    /\ AgoUnparsable(request)
    /\ Accessed("ch_scan")
    /\ Len(value_data_list) > 0
    /\ Len(value_data_list) < Len(value_data)

\* C10: when the listing groups a scan result holding rows of a series_id
\* for which the metadata query found no Series Registry row, it returns
\* (status 200) a block for that series_id with series_name "", is_active
\* False, is_derived False, version_number 1 and null lookup names, holding
\* all rows of that series_id.
C10_MissingSeriesDefaults ==
    [][ (pc = "metadata" /\ pc' = "done") =>
            /\ response'.status = 200
            /\ \A sid \in {value_data_list[i].series_id : i \in DOMAIN value_data_list}
                           \ meta_series :
                  \E k \in DOMAIN response'.body :
                      LET block == response'.body[k]
                      IN  /\ block.meta_series_data.series_id = sid
                          /\ block.meta_series_data.series_name = <<>>
                          /\ block.meta_series_data.is_active = FALSE
                          /\ block.meta_series_data.is_derived = FALSE
                          /\ block.meta_series_data.version_number = 1
                          /\ block.meta_series_data.asset_class_name = None
                          /\ block.meta_series_data.product_type_name = None
                          /\ block.value_data = RowsOfSeries(value_data_list, sid)
      ]_vars

\* a response with a block of defaults that carries rows
C10_Witness ==
    /\ entry = "get_value_data"
    /\ pc = "done"
    /\ Accessed("pg_metadata")
    /\ \E k \in DOMAIN response.body :
          /\ response.body[k].meta_series_data.series_name = <<>>
          /\ response.body[k].meta_series_data.series_id \notin meta_series
          /\ Len(response.body[k].value_data) >= 1

----------------------------------------------------------------------------
(* The keyed value-data operations *)

\* path and body values of the keyed requests of the model
KeySeriesIds == {1, 2}

KeyTimestamps == {Today, Today - 200, Today - 1}

BodyValues == {77}

\* indexes of the rows of the table with the key (series_id, timestamp)
KeyRows(table, series_id, timestamp) ==
    {i \in DOMAIN table : /\ table[i].series_id = series_id
                          /\ table[i].timestamp = timestamp}

\* crudValueData.get_by_id: SELECT ... WHERE series_id = .. AND timestamp = ..
\* LIMIT 1 with no ORDER BY; the set of rows the store may answer with, or None
get_by_id(table, series_id, timestamp) ==
    IF KeyRows(table, series_id, timestamp) = {}
    THEN {None}
    ELSE {Some(table[i]) : i \in KeyRows(table, series_id, timestamp)}

\* a keyed endpoint is entered: the request is recorded
EnterKeyed(name, series_id, timestamp, value) ==
    /\ pc = "idle"
    /\ entry' = name
    /\ target' = [series_id |-> series_id, timestamp |-> timestamp, value |-> value]
    /\ UNCHANGED <<request, now, conditions, params, series_ids_filter, value_data_list>>

\* GET /value-data/{series_id}/{timestamp}
get_value_data_by_date ==
    /\ \E series_id \in KeySeriesIds, timestamp \in KeyTimestamps :
          /\ EnterKeyed("get_value_data_by_date", series_id, timestamp, 0)
          /\ IF ClickHouseUnavailable
             THEN Finish(503, <<>>) /\ UNCHANGED trace
             ELSE /\ trace' = Append(trace, "ch_get")
                  /\ \E value \in get_by_id(value_data, series_id, timestamp) :
                        IF IsNone(value)
                        THEN Finish(404, <<>>)
                        ELSE Finish(200, <<valueDataResponse(Val(value))>>)
    /\ UNCHANGED <<meta_series, value_data, ch_client, system_vars, registry_vars>>

\* series_id of the observations a write request may carry
WriteSeriesIds == {1, 2, MissingSeriesId}

\* a create that inserts without looking the series up
create_with_validation_Unchecked(obj_in, status, body) ==
    /\ Len(value_data) < MaxRows
    /\ trace' = Append(trace, "ch_insert")
    /\ value_data' = Append(value_data, obj_in)
    /\ Finish(status, body)

\* crudValueData.create_with_validation: the series is looked up in
\* meta_series; ValueError("Series not found") if it has no row (status 500
\* stands for the exception), else create inserts the row and it is returned
\* with the status and body of the caller
create_with_validation(obj_in, status, body) ==
    IF obj_in.series_id \notin meta_series
    THEN /\ trace' = Append(trace, "pg_validate")
         /\ Finish(500, <<>>)
         /\ UNCHANGED value_data
    ELSE /\ Len(value_data) < MaxRows
         /\ trace' = trace \o <<"pg_validate", "ch_insert">>
         /\ value_data' = Append(value_data, obj_in)
         /\ Finish(status, body)

\* crudValueData.create_with_validation called directly with a valueData
create_with_validation_called ==
    /\ ch_client
    /\ \E series_id \in WriteSeriesIds, timestamp \in KeyTimestamps, value \in BodyValues :
          /\ EnterKeyed("create_with_validation", series_id, timestamp, value)
          /\ create_with_validation(Row(series_id, timestamp, value), 200,
                                    <<Row(series_id, timestamp, value)>>)
    /\ UNCHANGED <<meta_series, ch_client, system_vars, registry_vars>>

\* POST /value-data/: the body carries timestamp and value; the row is built
\* with series_id=0 and handed to create_with_validation
create_value_data ==
    /\ \E timestamp \in KeyTimestamps, value \in BodyValues :
          /\ EnterKeyed("create_value_data", 0, timestamp, value)
          /\ IF ClickHouseUnavailable
             THEN Finish(503, <<>>) /\ UNCHANGED <<trace, value_data>>
             ELSE create_with_validation(Row(0, timestamp, value), 201,
                                         <<[timestamp |-> timestamp, value |-> value]>>)
    /\ UNCHANGED <<meta_series, ch_client, system_vars, registry_vars>>

\* PUT /value-data/{series_id}/{timestamp} up to its call of crud update
update_value_data ==
    /\ \E series_id \in KeySeriesIds, timestamp \in KeyTimestamps, value \in BodyValues :
          /\ EnterKeyed("update_value_data", series_id, timestamp, value)
          /\ IF ClickHouseUnavailable
             THEN Finish(503, <<>>) /\ UNCHANGED trace
             ELSE /\ trace' = Append(trace, "ch_get")
                  /\ IF get_by_id(value_data, series_id, timestamp) = {None}
                     THEN Finish(404, <<>>)
                     ELSE pc' = "update" /\ UNCHANGED response
    /\ UNCHANGED <<meta_series, value_data, ch_client, system_vars, registry_vars>>

\* crudValueData.update called directly on a key
update_called ==
    /\ ch_client
    /\ \E series_id \in KeySeriesIds, timestamp \in KeyTimestamps, value \in BodyValues :
          EnterKeyed("update", series_id, timestamp, value)
    /\ pc' = "update"
    /\ UNCHANGED <<response, trace>>
    /\ UNCHANGED <<meta_series, value_data, ch_client, system_vars, registry_vars>>

\* crudValueData.update: the existing row is read, a row with the new value
\* is built from it and inserted by create; no row is removed
update ==
    /\ pc = "update"
    /\ \E existing \in get_by_id(value_data, target.series_id, target.timestamp) :
          IF IsNone(existing)
          THEN /\ trace' = Append(trace, "ch_get")
               /\ Finish(200, <<>>)
               /\ UNCHANGED value_data
          ELSE LET updated == Row(Val(existing).series_id, Val(existing).timestamp,
                                  target.value)
               IN  /\ Len(value_data) < MaxRows
                   /\ trace' = trace \o <<"ch_get", "ch_insert">>
                   /\ value_data' = Append(value_data, updated)
                   /\ Finish(200, <<valueDataResponse(updated)>>)
    /\ UNCHANGED <<meta_series, ch_client, system_vars, entry, request, now, conditions, params,
                   series_ids_filter, value_data_list, target, registry_vars>>

\* GET /value-data/derived/: availability check, then the call of get_derived
get_derived_value_data ==
    /\ pc = "idle"
    /\ \E req \in Requests :
          /\ IsNone(req.limit)
          /\ entry' = "get_derived_value_data"
          /\ request' = req
          /\ IF ClickHouseUnavailable
             THEN Finish(503, <<>>)
             ELSE pc' = "get_derived" /\ UNCHANGED response
    /\ UNCHANGED <<now, conditions, params, series_ids_filter, value_data_list, trace>>
    /\ UNCHANGED <<meta_series, value_data, ch_client, system_vars, target, registry_vars>>

\* crudValueData.get_derived called directly with a filter object
get_derived_called ==
    /\ pc = "idle"
    /\ ch_client
    /\ \E req \in Requests :
          /\ IsNone(req.limit)
          /\ entry' = "get_derived"
          /\ request' = req
    /\ pc' = "get_derived"
    /\ UNCHANGED <<now, conditions, params, series_ids_filter, value_data_list,
                   response, trace>>
    /\ UNCHANGED <<meta_series, value_data, ch_client, system_vars, target, registry_vars>>

\* a get_derived that passes the filter on as it came
get_derived_FilterAsGiven ==
    /\ pc = "get_derived"
    /\ \E tod \in TimesOfDay :
          /\ request' = request
          /\ BeginQuery(request, Today * SecondsPerDay + tod)
    /\ UNCHANGED entry
    /\ UNCHANGED <<meta_series, value_data, ch_client, system_vars, target, registry_vars>>

\* crudValueData.get_derived: filter_obj.is_derived = True, then the
\* filtered query on the same filter object
get_derived ==
    /\ pc = "get_derived"
    /\ \E tod \in TimesOfDay :
          /\ request' = [request EXCEPT !.is_derived = Some(TRUE)]
          /\ BeginQuery([request EXCEPT !.is_derived = Some(TRUE)],
                        Today * SecondsPerDay + tod)
    /\ UNCHANGED entry
    /\ UNCHANGED <<meta_series, value_data, ch_client, system_vars, target, registry_vars>>

\* the response of a keyed request has been sent
ReturnKeyed ==
    /\ pc = "done"
    /\ target' = NoTarget
    /\ pc' = "idle"
    /\ entry' = "none"
    /\ request' = DefaultFilter
    /\ now' = 0
    /\ conditions' = <<>>
    /\ params' = NoParams
    /\ series_ids_filter' = {}
    /\ value_data_list' = <<>>
    /\ response' = NoResponse
    /\ trace' = <<>>
    /\ UNCHANGED <<meta_series, value_data, ch_client, system_vars, registry_vars>>

StoreNext ==
    \/ get_value_data
    \/ get_value_data_by_date
    \/ create_value_data
    \/ update_value_data
    \/ update_called
    \/ update
    \/ get_derived_value_data
    \/ get_derived_called
    \/ get_derived
    \/ create_with_validation_called
    \/ ResolveSeriesIds
    \/ ScanValueData
    \/ FetchMetadataAndGroup
    \/ ReturnKeyed
    \/ create

StoreSpec == Init /\ [][StoreNext]_vars

----------------------------------------------------------------------------
(* Properties of the keyed value-data operations *)

\* the operations of the value-data router
ValueDataEndpoints ==
    {"get_value_data", "get_value_data_by_date", "create_value_data",
     "update_value_data", "get_derived_value_data"}

\* C11 (as stated): when the Observation Store is unavailable, every
\* value-data operation (list, get by key, create, update, derived list)
\* fails with 503, returns no body and has queried neither store.
C11_UnavailableIs503 ==
    (~ch_client /\ entry \in ValueDataEndpoints) =>
        /\ pc = "done"
        /\ response = [status |-> 503, body |-> <<>>]
        /\ trace = <<>>

\* C11 (amended): when the Observation Store is unavailable, every
\* value-data operation fails before any relational or time-series query and
\* returns no body: with 503, except that the listing whose series_name
\* validation fails is rejected with 400, since that validation comes first.
\* No row is written either.
C11_UnavailableFailsBeforeQueries ==
    (~ch_client /\ entry \in ValueDataEndpoints) =>
        /\ pc = "done"
        /\ response.body = <<>>
        /\ trace = <<>>
        /\ value_data = SeededRows
        /\ response.status =
              IF entry = "get_value_data" /\ ~series_name_valid(request)
              THEN 400 ELSE 503

\* an update of a key the store holds is refused with 503 while the store
\* is unavailable
C11_Witness ==
    /\ ~ch_client
    /\ entry = "update_value_data"
    /\ response.status = 503
    /\ KeyRows(SeededRows, target.series_id, target.timestamp) # {}

\* C20: the Observation Store update is a delete+reinsert keyed by
\* (series_id, timestamp): an update of a key that identifies one row leaves
\* exactly one row for that key, carrying the new value, and a following
\* get_by_id returns the new value; an update of a missing key returns
\* nothing and inserts no row.
C20_UpdateReplacesRow ==
    [][(pc = "update" /\ pc' = "done") =>
          LET before == KeyRows(value_data, target.series_id, target.timestamp)
              after == KeyRows(value_data', target.series_id, target.timestamp)
              new_row == Row(target.series_id, target.timestamp, target.value)
          IN  /\ before = {} =>
                    /\ value_data' = value_data
                    /\ response'.body = <<>>
              /\ Cardinality(before) = 1 =>
                    /\ Cardinality(after) = 1
                    /\ \A i \in after : value_data'[i] = new_row
                    /\ get_by_id(value_data', target.series_id, target.timestamp)
                          = {Some(new_row)}]_vars

----------------------------------------------------------------------------
(* crudBase.create on the relational tables *)

\* attempts at inserting a dependency edge, a calculation entry or a series
\* (values of the serial sequences) and readings of the clock
MaxDependencyId == 2

MaxCalculationId == 2

MaxSeriesId == 3

MaxClock == 5

\* weights are counted in thousandths
\* request bodies of POST /dependencies/: is_active is the model's default
\* (True) unless the body sets it
DependencyBodies ==
    {[parent_series_id |-> 1, child_series_id |-> 2, dependency_type |-> "DERIVED",
      weight |-> Some(250), is_active |-> TRUE],
     [parent_series_id |-> 2, child_series_id |-> 2, dependency_type |-> "COMPONENT",
      weight |-> Some(255), is_active |-> TRUE],
     [parent_series_id |-> 1, child_series_id |-> 2, dependency_type |-> "DERIVED",
      weight |-> None, is_active |-> FALSE],
     [parent_series_id |-> MissingSeriesId, child_series_id |-> 2,
      dependency_type |-> "DERIVED", weight |-> Some(250), is_active |-> TRUE],
     [parent_series_id |-> 1, child_series_id |-> MissingSeriesId,
      dependency_type |-> "DERIVED", weight |-> Some(250), is_active |-> TRUE]}

\* request bodies of POST /calculations/
CalculationBodies ==
    {[derived_series_id |-> 2, calculation_status |-> "Success"],
     [derived_series_id |-> 2, calculation_status |-> "Failed"],
     [derived_series_id |-> 1, calculation_status |-> "Success"],
     [derived_series_id |-> MissingSeriesId, calculation_status |-> "Success"]}

\* request bodies of POST /meta-series/
SeriesBodies ==
    {[series_name |-> Str_Zc, is_active |-> TRUE],
     [series_name |-> Str_Zc, is_active |-> FALSE]}

\* a Numeric(3, 2) column that cuts the digits after the second decimal
numeric_3_2_Truncate(w) ==
    IF IsNone(w) THEN None ELSE Some((Val(w) \div 10) * 10)

\* what a Numeric(3, 2) column stores: the value rounded to two decimals
numeric_3_2(w) ==
    IF IsNone(w) THEN None ELSE Some(((Val(w) + 5) \div 10) * 10)

\* the row with primary key id of a table kept in insert order
RowsWithId(table, key, id) == {table[i] : i \in {j \in DOMAIN table : table[j][key] = id}}

\* creates of the table that have been added to a session and not committed
InFlight(table) ==
    Cardinality({p \in Clients : session[p].pc = "commit" /\ session[p].table = table})

\* db.add(db_obj): the object is pending in the session of the request
Add(p, table, obj_in) ==
    /\ session[p].pc = "idle"
    /\ session' = [session EXCEPT ![p] =
                      [pc |-> "commit", table |-> table, obj_in |-> Some(obj_in),
                       id |-> 0, status |-> 0, body |-> None]]

\* what the relational endpoints leave alone
StoresUnchanged ==
    UNCHANGED <<value_data, ch_client, system_vars, pc, entry, request, now, conditions, params,
                series_ids_filter, value_data_list, response, trace, target>>

\* POST /meta-series/: created_at and updated_at are set by default_factory
\* when the body is built
create_meta_series(p) ==
    /\ series_id_seq + InFlight("meta_series") < MaxSeriesId
    /\ utcnow < MaxClock
    /\ utcnow' = utcnow + 1
    /\ \E body \in SeriesBodies :
          Add(p, "meta_series",
              [series_name |-> body.series_name, is_active |-> body.is_active,
               created_at |-> utcnow + 1, updated_at |-> utcnow + 1])
    /\ UNCHANGED <<meta_series, registry, dependency_graph, calculation_log,
                   series_id_seq, dependency_id_seq, calculation_id_seq, result>>
    /\ StoresUnchanged

\* POST /dependencies/ with a body of the set bodies
create_dependency_from(p, bodies) ==
    /\ dependency_id_seq + InFlight("series_dependency_graph") < MaxDependencyId
    /\ \E body \in bodies : Add(p, "series_dependency_graph", body)
    /\ UNCHANGED <<meta_series, registry, dependency_graph, calculation_log,
                   series_id_seq, dependency_id_seq, calculation_id_seq, utcnow, result>>
    /\ StoresUnchanged

\* POST /dependencies/
create_dependency(p) == create_dependency_from(p, DependencyBodies)

\* POST /calculations/
create_calculation(p) ==
    /\ calculation_id_seq + InFlight("calculation_log") < MaxCalculationId
    /\ \E body \in CalculationBodies : Add(p, "calculation_log", body)
    /\ UNCHANGED <<meta_series, registry, dependency_graph, calculation_log,
                   series_id_seq, dependency_id_seq, calculation_id_seq, utcnow, result>>
    /\ StoresUnchanged

\* the commit raised IntegrityError: the transaction is rolled back and the
\* request fails
CommitFails(p) ==
    session' = [session EXCEPT ![p].pc = "done", ![p].status = 500]

\* the INSERT succeeded: the row has its primary key
CommitInserts(p, id) ==
    session' = [session EXCEPT ![p].pc = "refresh", ![p].id = id]

\* INSERT INTO meta_series: the serial column takes the next sequence value
\* (kept even if the statement fails), the primary key must be free
InsertSeries(p) ==
    LET obj == Val(session[p].obj_in)
        id == series_id_seq + 1
    IN  /\ series_id_seq' = id
        /\ IF id \in DOMAIN registry
           THEN CommitFails(p) /\ UNCHANGED <<registry, meta_series>>
           ELSE /\ registry' = [k \in DOMAIN registry \cup {id} |->
                                  IF k = id THEN obj ELSE registry[k]]
                /\ meta_series' = meta_series \cup {id}
                /\ CommitInserts(p, id)
        /\ UNCHANGED <<dependency_graph, calculation_log, dependency_id_seq,
                       calculation_id_seq>>

\* INSERT INTO series_dependency_graph with no check that the series exist
InsertDependency_NoForeignKey(p) ==
    LET obj == Val(session[p].obj_in)
        id == dependency_id_seq + 1
    IN  /\ dependency_id_seq' = id
        /\ dependency_graph' = Append(dependency_graph,
                 [dependency_id |-> id,
                  parent_series_id |-> obj.parent_series_id,
                  child_series_id |-> obj.child_series_id,
                  dependency_type |-> obj.dependency_type,
                  weight |-> numeric_3_2(obj.weight),
                  is_active |-> obj.is_active])
        /\ CommitInserts(p, id)
        /\ UNCHANGED <<registry, meta_series, calculation_log, series_id_seq,
                       calculation_id_seq>>

\* INSERT INTO series_dependency_graph: both foreign keys to
\* meta_series.series_id are checked, the weight is stored as Numeric(3, 2)
InsertDependency(p) ==
    LET obj == Val(session[p].obj_in)
        id == dependency_id_seq + 1
    IN  /\ dependency_id_seq' = id
        /\ IF obj.parent_series_id \notin DOMAIN registry
              \/ obj.child_series_id \notin DOMAIN registry
           THEN CommitFails(p) /\ UNCHANGED dependency_graph
           ELSE /\ dependency_graph' = Append(dependency_graph,
                       [dependency_id |-> id,
                        parent_series_id |-> obj.parent_series_id,
                        child_series_id |-> obj.child_series_id,
                        dependency_type |-> obj.dependency_type,
                        weight |-> numeric_3_2(obj.weight),
                        is_active |-> obj.is_active])
                /\ CommitInserts(p, id)
        /\ UNCHANGED <<registry, meta_series, calculation_log, series_id_seq,
                       calculation_id_seq>>

\* an insert into calculation_log that is refused while the ledger holds an
\* entry of the same derived series
InsertCalculation_Exclusive(p) ==
    LET obj == Val(session[p].obj_in)
        id == calculation_id_seq + 1
    IN  /\ calculation_id_seq' = id
        /\ IF \/ obj.derived_series_id \notin DOMAIN registry
              \/ \E i \in DOMAIN calculation_log :
                    calculation_log[i].derived_series_id = obj.derived_series_id
           THEN CommitFails(p) /\ UNCHANGED calculation_log
           ELSE /\ calculation_log' = Append(calculation_log,
                       [calculation_id |-> id,
                        derived_series_id |-> obj.derived_series_id,
                        calculation_status |-> obj.calculation_status])
                /\ CommitInserts(p, id)
        /\ UNCHANGED <<registry, meta_series, dependency_graph, series_id_seq,
                       dependency_id_seq>>

\* an insert into calculation_log that replaces the entry the ledger holds
\* for the same derived series
InsertCalculation_Upsert(p) ==
    LET obj == Val(session[p].obj_in)
        id == calculation_id_seq + 1
        entry_ == [calculation_id |-> id,
                   derived_series_id |-> obj.derived_series_id,
                   calculation_status |-> obj.calculation_status]
        others == SelectSeq(calculation_log,
                            LAMBDA e : e.derived_series_id # obj.derived_series_id)
    IN  /\ calculation_id_seq' = id
        /\ IF obj.derived_series_id \notin DOMAIN registry
           THEN CommitFails(p) /\ UNCHANGED calculation_log
           ELSE /\ calculation_log' = Append(others, entry_)
                /\ CommitInserts(p, id)
        /\ UNCHANGED <<registry, meta_series, dependency_graph, series_id_seq,
                       dependency_id_seq>>

\* INSERT INTO calculation_log: the foreign key derived_series_id is checked
InsertCalculation(p) ==
    LET obj == Val(session[p].obj_in)
        id == calculation_id_seq + 1
    IN  /\ calculation_id_seq' = id
        /\ IF obj.derived_series_id \notin DOMAIN registry
           THEN CommitFails(p) /\ UNCHANGED calculation_log
           ELSE /\ calculation_log' = Append(calculation_log,
                       [calculation_id |-> id,
                        derived_series_id |-> obj.derived_series_id,
                        calculation_status |-> obj.calculation_status])
                /\ CommitInserts(p, id)
        /\ UNCHANGED <<registry, meta_series, dependency_graph, series_id_seq,
                       dependency_id_seq>>

\* await db.commit() of crudBase.create: the pending object is inserted
db_commit(p) ==
    /\ session[p].pc = "commit"
    /\ CASE session[p].table = "meta_series" -> InsertSeries(p)
         [] session[p].table = "series_dependency_graph" -> InsertDependency(p)
         [] session[p].table = "calculation_log" -> InsertCalculation(p)
    /\ UNCHANGED <<utcnow, result>>
    /\ StoresUnchanged

\* the row db.refresh(db_obj) reads back by primary key, or None
RefreshedRow(p) ==
    LET id == session[p].id
        rows == CASE session[p].table = "meta_series" ->
                       IF id \in DOMAIN registry THEN {registry[id]} ELSE {}
                  [] session[p].table = "series_dependency_graph" ->
                       RowsWithId(dependency_graph, "dependency_id", id)
                  [] session[p].table = "calculation_log" ->
                       RowsWithId(calculation_log, "calculation_id", id)
    IN  IF rows = {} THEN None ELSE Some(CHOOSE r \in rows : TRUE)

\* await db.refresh(db_obj) and the return of the endpoint (status 201)
db_refresh(p) ==
    /\ session[p].pc = "refresh"
    /\ session' = [session EXCEPT
                      ![p].pc = "done",
                      ![p].status = IF IsNone(RefreshedRow(p)) THEN 500 ELSE 201,
                      ![p].body = RefreshedRow(p)]
    /\ UNCHANGED <<meta_series, registry, dependency_graph, calculation_log,
                   series_id_seq, dependency_id_seq, calculation_id_seq, utcnow, result>>
    /\ StoresUnchanged

\* the response of the create has been sent
ReturnCreated(p) ==
    /\ session[p].pc = "done"
    /\ session' = [session EXCEPT ![p] = NoSession]
    /\ UNCHANGED <<meta_series, registry, dependency_graph, calculation_log,
                   series_id_seq, dependency_id_seq, calculation_id_seq, utcnow, result>>
    /\ StoresUnchanged

----------------------------------------------------------------------------
(* The Series Registry endpoints *)

\* a row of meta_series as the endpoints return it
SeriesRow(table, id) ==
    [series_id |-> id,
     series_name |-> table[id].series_name,
     is_active |-> table[id].is_active,
     created_at |-> table[id].created_at,
     updated_at |-> table[id].updated_at]

\* path parameter series_id of the requests of the model
TargetSeriesIds == {1, 2, 3, MissingSeriesId}

\* a series_id a request body may carry that no row has at the start
OtherSeriesId == 7

\* the fields set in the body of PUT /meta-series/{series_id}
SeriesUpdates ==
    {[series_id |-> None, series_name |-> Some(Str_Zc), is_active |-> None],
     [series_id |-> None, series_name |-> None, is_active |-> Some(TRUE)],
     [series_id |-> Some(OtherSeriesId), series_name |-> None, is_active |-> None]}

\* metaSeriesFilter: every field defaults to None
DefaultSeriesFilter == [is_active |-> None, series_name__in |-> None]

SeriesFilters ==
    {DefaultSeriesFilter}
    \cup {[DefaultSeriesFilter EXCEPT !.is_active = Some(b)] : b \in BOOLEAN}
    \cup {[DefaultSeriesFilter EXCEPT !.series_name__in = Some(<<Str_Zc, Str_Ga>>)]}

\* a series filter whose is_active is True when the request does not set it
SeriesFilterHolds_ActiveByDefault(f, row) ==
    /\ row.is_active = (IF IsNone(f.is_active) THEN TRUE ELSE Val(f.is_active))
    /\ IsNone(f.series_name__in) \/ row.series_name \in Range(Val(f.series_name__in))

\* filter_obj.filter(query) of metaSeriesFilter: one predicate for each field
\* that is not None
SeriesFilterHolds(f, row) ==
    /\ IsNone(f.is_active) \/ row.is_active = Val(f.is_active)
    /\ IsNone(f.series_name__in) \/ row.series_name \in Range(Val(f.series_name__in))

\* a row of series_dependency_graph or calculation_log references the series
Referenced(id) ==
    \/ \E i \in DOMAIN dependency_graph :
          \/ dependency_graph[i].parent_series_id = id
          \/ dependency_graph[i].child_series_id = id
    \/ \E i \in DOMAIN calculation_log : calculation_log[i].derived_series_id = id

\* an atomic relational operation returns
Returns(op, arg, status, body) ==
    result' = [op |-> op, arg |-> Some(arg), status |-> status, body |-> body]

\* what the series endpoints other than the creates leave alone
SeriesFrame ==
    /\ UNCHANGED <<dependency_graph, calculation_log, series_id_seq,
                   dependency_id_seq, calculation_id_seq, session>>
    /\ StoresUnchanged

\* GET /meta-series/
get_meta_series ==
    /\ \E f \in SeriesFilters :
          Returns("get_meta_series", f, 200,
                  {SeriesRow(registry, id) :
                      id \in {k \in DOMAIN registry : SeriesFilterHolds(f, registry[k])}})
    /\ UNCHANGED <<meta_series, registry, utcnow>>
    /\ SeriesFrame

\* GET /meta-series/{series_id}
get_meta_series_by_id ==
    /\ \E series_id \in TargetSeriesIds :
          IF series_id \in DOMAIN registry
          THEN Returns("get_meta_series_by_id", series_id, 200,
                       {SeriesRow(registry, series_id)})
          ELSE Returns("get_meta_series_by_id", series_id, 404, {})
    /\ UNCHANGED <<meta_series, registry, utcnow>>
    /\ SeriesFrame

\* PUT /meta-series/{series_id}: crudBase.update sets every field of the
\* body, the primary key included, sets updated_at and commits; a primary
\* key that is taken or a row that is referenced makes the commit fail
update_meta_series ==
    /\ \E series_id \in TargetSeriesIds, update_data \in SeriesUpdates :
          IF series_id \notin DOMAIN registry
          THEN /\ Returns("update_meta_series", series_id, 404, {})
               /\ UNCHANGED <<meta_series, registry, utcnow>>
          ELSE LET new_id == IF IsNone(update_data.series_id) THEN series_id
                             ELSE Val(update_data.series_id)
                   row == [series_name |-> IF IsNone(update_data.series_name)
                                           THEN registry[series_id].series_name
                                           ELSE Val(update_data.series_name),
                           is_active |-> IF IsNone(update_data.is_active)
                                         THEN registry[series_id].is_active
                                         ELSE Val(update_data.is_active),
                           created_at |-> registry[series_id].created_at,
                           updated_at |-> utcnow + 1]
                   updated == [k \in (DOMAIN registry \ {series_id}) \cup {new_id} |->
                                  IF k = new_id THEN row ELSE registry[k]]
               IN  /\ utcnow < MaxClock
                   /\ utcnow' = utcnow + 1
                   /\ IF new_id # series_id
                         /\ (new_id \in DOMAIN registry \/ Referenced(series_id))
                      THEN /\ Returns("update_meta_series", series_id, 500, {})
                           /\ UNCHANGED <<meta_series, registry>>
                      ELSE /\ registry' = updated
                           /\ meta_series' = DOMAIN updated
                           /\ Returns("update_meta_series", series_id, 200,
                                      {SeriesRow(updated, new_id)})
    /\ SeriesFrame

\* a soft delete that flushes an UPDATE whether or not is_active changes
soft_delete_AlwaysUpdates(series, clock) ==
    [series EXCEPT !.is_active = FALSE, !.updated_at = clock]

\* crudMetaSeries.soft_delete on a row that exists: is_active is set to
\* False; the commit flushes an UPDATE, which sets updated_at (onupdate),
\* only if the attribute changed
soft_delete(series, clock) ==
    IF series.is_active
    THEN [series EXCEPT !.is_active = FALSE, !.updated_at = clock]
    ELSE series

\* a delete endpoint that removes the row (crudBase.delete)
delete_meta_series_Hard ==
    /\ \E series_id \in TargetSeriesIds :
          IF series_id \notin DOMAIN registry
          THEN /\ Returns("delete_meta_series", series_id, 404, {})
               /\ UNCHANGED <<meta_series, registry>>
          ELSE /\ registry' = [k \in DOMAIN registry \ {series_id} |-> registry[k]]
               /\ meta_series' = meta_series \ {series_id}
               /\ Returns("delete_meta_series", series_id, 204,
                          {SeriesRow(registry, series_id)})
    /\ UNCHANGED utcnow
    /\ SeriesFrame

\* DELETE /meta-series/{series_id}: soft_delete, 404 if it returns None
delete_meta_series ==
    /\ \E series_id \in TargetSeriesIds :
          IF series_id \notin DOMAIN registry
          THEN /\ Returns("delete_meta_series", series_id, 404, {})
               /\ UNCHANGED <<registry, utcnow>>
          ELSE LET series == soft_delete(registry[series_id], utcnow + 1)
                   updated == [registry EXCEPT ![series_id] = series]
               IN  /\ series # registry[series_id] => utcnow < MaxClock
                   /\ utcnow' = IF series # registry[series_id] THEN utcnow + 1 ELSE utcnow
                   /\ registry' = updated
                   /\ Returns("delete_meta_series", series_id, 204,
                              {SeriesRow(updated, series_id)})
    /\ UNCHANGED meta_series
    /\ SeriesFrame

\* the registry a relational specification starts from: series 1 (active)
\* and series 2 (inactive), empty graph and ledger
RelationalInit ==
    /\ meta_series = {1, 2}
    /\ registry = [id \in {1, 2} |-> RegistryRow(id)]
    /\ dependency_graph = <<>>
    /\ calculation_log = <<>>
    /\ series_id_seq = 2
    /\ dependency_id_seq = 0
    /\ calculation_id_seq = 0
    /\ utcnow = 3
    /\ session = [p \in Clients |-> NoSession]
    /\ result = NoResult
    /\ value_data = SeededRows
    /\ ch_client = TRUE
    /\ RequestCleared
    /\ target = NoTarget
    /\ SystemIdle

\* the client of the registry specification
RegistryClients == {1}

RegistryNext ==
    \/ \E p \in RegistryClients : create_meta_series(p)
    \/ \E p \in RegistryClients : db_commit(p)
    \/ \E p \in RegistryClients : db_refresh(p)
    \/ \E p \in RegistryClients : ReturnCreated(p)
    \/ get_meta_series
    \/ get_meta_series_by_id
    \/ update_meta_series
    \/ delete_meta_series

RegistrySpec == RelationalInit /\ [][RegistryNext]_vars

----------------------------------------------------------------------------
(* Properties of the Series Registry *)

\* C17: soft_delete is idempotent. Every soft delete of an existing series
\* succeeds and leaves and returns it with is_active False; a soft delete of
\* a series that is already inactive changes neither the registry (updated_at
\* included) nor the clock, and one more soft delete of the row it leaves
\* would give that row again.
C17_SoftDeleteIdempotent ==
    [][delete_meta_series =>
          LET series_id == Val(result'.arg)
          IN  series_id \in DOMAIN registry =>
                 /\ result'.status = 204
                 /\ result'.body = {SeriesRow(registry', series_id)}
                 /\ ~registry'[series_id].is_active
                 /\ soft_delete(registry'[series_id], utcnow' + 1) = registry'[series_id]
                 /\ ~registry[series_id].is_active =>
                       /\ registry' = registry
                       /\ utcnow' = utcnow]_vars

\* series 1, active at the start, was soft-deleted at time 4, series 2 was
\* updated at time 5, and the last operation is another soft delete of
\* series 1, which left updated_at at 4
C17_Witness ==
    /\ result.op = "delete_meta_series"
    /\ result.arg = Some(1)
    /\ result.status = 204
    /\ {1, 2} \subseteq DOMAIN registry
    /\ ~registry[1].is_active
    /\ registry[1].updated_at = 4
    /\ registry[2].updated_at = 5

C19_DefaultListingActiveOnly ==
    [][get_meta_series =>
          (IsNone(Val(result'.arg).is_active) =>
              \A row \in result'.body : row.is_active)]_vars

\* C19 as the code has it: a listing of series returns the series that
\* satisfy the predicates the request supplies; with no is_active predicate
\* it returns the inactive series among them as well, and only with
\* is_active given are the series of the other kind left out.
C19_ListingAppliesSuppliedPredicates ==
    [][get_meta_series =>
          LET f == Val(result'.arg)
          IN  /\ result'.status = 200
              /\ result'.body =
                    {SeriesRow(registry, k) :
                        k \in {j \in DOMAIN registry :
                                 /\ ~IsNone(f.is_active) =>
                                       registry[j].is_active = Val(f.is_active)
                                 /\ ~IsNone(f.series_name__in) =>
                                       \E i \in DOMAIN Val(f.series_name__in) :
                                          Val(f.series_name__in)[i] = registry[j].series_name}}]_vars

\* series 1 was soft-deleted and the default listing returns it
C19_Witness ==
    /\ result.op = "get_meta_series"
    /\ result.arg = Some(DefaultSeriesFilter)
    /\ \E row \in result.body :
          /\ row.series_id = 1
          /\ ~row.is_active
          /\ row.updated_at > row.created_at

----------------------------------------------------------------------------
(* The Dependency Graph endpoints *)

\* dependencyFilter as a request that sets no query parameter leaves it;
\* None stands for a field the request does not set
UnsetDependencyFilter ==
    [parent_series_id |-> None, parent_series_id__in |-> None,
     child_series_id |-> None, child_series_id__in |-> None,
     is_active |-> None, dependency_type |-> None, dependency_type__in |-> None]

\* the values a request of the model gives to a field of dependencyFilter
DependencyFieldValues ==
    [parent_series_id |-> {2}, parent_series_id__in |-> {<<1>>},
     child_series_id |-> {2}, child_series_id__in |-> {<<2>>},
     is_active |-> {TRUE, FALSE},
     dependency_type |-> {"COMPONENT"}, dependency_type__in |-> {<<"DERIVED">>}]

\* the requests of GET /dependencies/: at most one query parameter
DependencyFilters ==
    {UnsetDependencyFilter}
    \cup {[UnsetDependencyFilter EXCEPT ![k] = Some(v)] :
            <<k, v>> \in UNION {{<<name, w>> : w \in DependencyFieldValues[name]} :
                                  name \in DOMAIN DependencyFieldValues}}

\* the value dependencyFilter.is_active has in the filter object
dependency_is_active(f) == IF IsNone(f.is_active) THEN TRUE ELSE Val(f.is_active)

\* filter_obj.filter(query) of dependencyFilter: one predicate for each
\* field fastapi-filter takes as set.  A field the request sets to a value
\* that is not its default is set; whether is_active counts as set while it
\* holds its default True is decided inside fastapi-filter (it differs
\* between releases), so default_applied is either outcome.
DependencyFilterHolds(f, default_applied, edge) ==
    /\ IsNone(f.parent_series_id) \/ edge.parent_series_id = Val(f.parent_series_id)
    /\ IsNone(f.parent_series_id__in)
          \/ edge.parent_series_id \in Range(Val(f.parent_series_id__in))
    /\ IsNone(f.child_series_id) \/ edge.child_series_id = Val(f.child_series_id)
    /\ IsNone(f.child_series_id__in)
          \/ edge.child_series_id \in Range(Val(f.child_series_id__in))
    /\ IsNone(f.dependency_type) \/ edge.dependency_type = Val(f.dependency_type)
    /\ IsNone(f.dependency_type__in)
          \/ edge.dependency_type \in Range(Val(f.dependency_type__in))
    /\ (dependency_is_active(f) = FALSE \/ default_applied)
          => edge.is_active = dependency_is_active(f)

\* what the dependency endpoints other than the creates leave alone
GraphFrame ==
    /\ UNCHANGED <<meta_series, registry, dependency_graph, calculation_log,
                   series_id_seq, dependency_id_seq, calculation_id_seq,
                   utcnow, session>>
    /\ StoresUnchanged

\* GET /dependencies/
get_dependencies ==
    /\ \E f \in DependencyFilters, default_applied \in BOOLEAN :
          Returns("get_dependencies", f, 200,
                  {dependency_graph[i] :
                      i \in {j \in DOMAIN dependency_graph :
                               DependencyFilterHolds(f, default_applied,
                                                     dependency_graph[j])}})
    /\ GraphFrame

DependencyNext ==
    \/ \E p \in RegistryClients : create_dependency(p)
    \/ \E p \in RegistryClients : db_commit(p)
    \/ \E p \in RegistryClients : db_refresh(p)
    \/ \E p \in RegistryClients : ReturnCreated(p)
    \/ get_dependencies

DependencySpec == RelationalInit /\ [][DependencyNext]_vars

\* the bodies of POST /dependencies/ in the integrity specification: an
\* edge between existing series, a missing parent, a missing child
IntegrityBodies ==
    {body \in DependencyBodies :
        /\ body.weight = Some(250)
        /\ body.is_active}

IntegrityNext ==
    \/ \E p \in RegistryClients : create_meta_series(p)
    \/ \E p \in RegistryClients : create_dependency_from(p, IntegrityBodies)
    \/ \E p \in RegistryClients : db_commit(p)
    \/ \E p \in RegistryClients : db_refresh(p)
    \/ \E p \in RegistryClients : ReturnCreated(p)
    \/ update_meta_series
    \/ delete_meta_series

IntegritySpec == RelationalInit /\ [][IntegrityNext]_vars

----------------------------------------------------------------------------
(* Properties of the Dependency Graph *)

\* C14: after every step of series creation, series update, soft delete and
\* create_dependency, both parent_series_id and child_series_id of every
\* stored edge are series_id of rows of meta_series; the commit of a
\* create_dependency that names a series with no row fails (the request ends
\* with status 500) and leaves the graph as it was.
C14_EdgesReferenceExistingSeries ==
    [][/\ \A i \in DOMAIN dependency_graph' :
             /\ dependency_graph'[i].parent_series_id \in DOMAIN registry'
             /\ dependency_graph'[i].child_series_id \in DOMAIN registry'
       /\ \A p \in Clients :
             (/\ db_commit(p)
              /\ session[p].table = "series_dependency_graph"
              /\ \/ Val(session[p].obj_in).parent_series_id \notin DOMAIN registry
                 \/ Val(session[p].obj_in).child_series_id \notin DOMAIN registry)
             => /\ dependency_graph' = dependency_graph
                /\ session'[p].pc = "done"
                /\ session'[p].status = 500]_vars

\* an edge is stored, its parent has been soft-deleted, a create_dependency
\* with a missing parent has failed at commit, and an update that would have
\* moved a referenced series to another series_id has been refused
C14_Witness ==
    /\ Len(dependency_graph) >= 1
    /\ ~registry[dependency_graph[1].parent_series_id].is_active
    /\ \E p \in Clients :
          /\ session[p].pc = "done"
          /\ session[p].table = "series_dependency_graph"
          /\ session[p].status = 500
          /\ Val(session[p].obj_in).parent_series_id = MissingSeriesId
    /\ result.op = "update_meta_series"
    /\ result.status = 500
    /\ Referenced(Val(result.arg))

\* C13: a create_dependency that commits appends one edge, with a new
\* dependency_id, whose parent, child, dependency_type and weight are the
\* values supplied; a listing by parent_series_id__in [P] or by
\* child_series_id__in [D] returns the edges of that parent or child (with
\* the default is_active, the active ones for certain), so exactly n of them
\* after n such creations.
C13_RoundTripExact ==
    [][/\ \A p \in Clients :
             (/\ db_commit(p)
              /\ session[p].table = "series_dependency_graph"
              /\ session'[p].pc = "refresh")
             => LET obj == Val(session[p].obj_in)
                    edge == dependency_graph'[Len(dependency_graph')]
                IN  /\ Len(dependency_graph') = Len(dependency_graph) + 1
                    /\ SubSeq(dependency_graph', 1, Len(dependency_graph)) = dependency_graph
                    /\ \A i \in DOMAIN dependency_graph :
                          dependency_graph[i].dependency_id # edge.dependency_id
                    /\ edge.parent_series_id = obj.parent_series_id
                    /\ edge.child_series_id = obj.child_series_id
                    /\ edge.dependency_type = obj.dependency_type
                    /\ edge.is_active = obj.is_active
                    /\ edge.weight = obj.weight
       /\ get_dependencies =>
             LET f == Val(result'.arg)
                 active(S) == {e \in S : e.is_active}
                 created(key, id) == {i \in DOMAIN dependency_graph :
                                         dependency_graph[i][key] = id}
                 edges(key, id) == {dependency_graph[i] : i \in created(key, id)}
             IN  /\ \A P \in {1, 2} :
                       f = [UnsetDependencyFilter EXCEPT !.parent_series_id__in = Some(<<P>>)]
                       => /\ result'.body \subseteq edges("parent_series_id", P)
                          /\ active(result'.body) = active(edges("parent_series_id", P))
                          /\ Cardinality(active(result'.body)) =
                                Cardinality({i \in created("parent_series_id", P) :
                                               dependency_graph[i].is_active})
                 /\ \A D \in {1, 2} :
                       f = [UnsetDependencyFilter EXCEPT !.child_series_id__in = Some(<<D>>)]
                       => /\ result'.body \subseteq edges("child_series_id", D)
                          /\ active(result'.body) = active(edges("child_series_id", D))
                          /\ Cardinality(active(result'.body)) =
                                Cardinality({i \in created("child_series_id", D) :
                                               dependency_graph[i].is_active})]_vars

\* C13 as the code has it: as above, but the weight of the stored edge is the
\* supplied weight rounded to two decimals (weights are in thousandths), so
\* it is the supplied weight when that has at most two decimals.
C13_RoundTripRounded ==
    [][/\ \A p \in Clients :
             (/\ db_commit(p)
              /\ session[p].table = "series_dependency_graph"
              /\ session'[p].pc = "refresh")
             => LET obj == Val(session[p].obj_in)
                    edge == dependency_graph'[Len(dependency_graph')]
                IN  /\ Len(dependency_graph') = Len(dependency_graph) + 1
                    /\ SubSeq(dependency_graph', 1, Len(dependency_graph)) = dependency_graph
                    /\ \A i \in DOMAIN dependency_graph :
                          dependency_graph[i].dependency_id # edge.dependency_id
                    /\ edge.parent_series_id = obj.parent_series_id
                    /\ edge.child_series_id = obj.child_series_id
                    /\ edge.dependency_type = obj.dependency_type
                    /\ edge.is_active = obj.is_active
                    /\ IF IsNone(obj.weight) THEN IsNone(edge.weight)
                       ELSE /\ ~IsNone(edge.weight)
                            /\ Val(edge.weight) % 10 = 0
                            /\ Val(edge.weight) - 5 <= Val(obj.weight)
                            /\ Val(obj.weight) < Val(edge.weight) + 5
       /\ get_dependencies =>
             LET f == Val(result'.arg)
                 active(S) == {e \in S : e.is_active}
                 created(key, id) == {i \in DOMAIN dependency_graph :
                                         dependency_graph[i][key] = id}
                 edges(key, id) == {dependency_graph[i] : i \in created(key, id)}
             IN  /\ \A P \in {1, 2} :
                       f = [UnsetDependencyFilter EXCEPT !.parent_series_id__in = Some(<<P>>)]
                       => /\ result'.body \subseteq edges("parent_series_id", P)
                          /\ active(result'.body) = active(edges("parent_series_id", P))
                          /\ Cardinality(active(result'.body)) =
                                Cardinality({i \in created("parent_series_id", P) :
                                               dependency_graph[i].is_active})
                 /\ \A D \in {1, 2} :
                       f = [UnsetDependencyFilter EXCEPT !.child_series_id__in = Some(<<D>>)]
                       => /\ result'.body \subseteq edges("child_series_id", D)
                          /\ active(result'.body) = active(edges("child_series_id", D))
                          /\ Cardinality(active(result'.body)) =
                                Cardinality({i \in created("child_series_id", D) :
                                               dependency_graph[i].is_active})]_vars

\* two edges with child 2 were created, one with weight 0.255 that is stored
\* as 0.26, and the listing by child_series_id__in [2] returns the two
C13_Witness ==
    /\ Len(dependency_graph) = 2
    /\ result.op = "get_dependencies"
    /\ result.arg = Some([UnsetDependencyFilter EXCEPT !.child_series_id__in = Some(<<2>>)])
    /\ Cardinality(result.body) = 2
    /\ \E e \in result.body : e.weight = Some(260)
    /\ \E e \in result.body : e.weight = Some(250) /\ e.dependency_type = "DERIVED"

----------------------------------------------------------------------------
(* The Calculation Ledger endpoints *)

\* calculationFilter as a request that sets no query parameter leaves it
UnsetCalculationFilter ==
    [derived_series_id |-> None, derived_series_id__in |-> None,
     calculation_status |-> None, calculation_status__in |-> None]

\* the requests of GET /calculations/: at most one query parameter
CalculationFilters ==
    {UnsetCalculationFilter,
     [UnsetCalculationFilter EXCEPT !.derived_series_id = Some(2)],
     [UnsetCalculationFilter EXCEPT !.derived_series_id__in = Some(<<2>>)],
     [UnsetCalculationFilter EXCEPT !.derived_series_id__in = Some(<<1>>)],
     [UnsetCalculationFilter EXCEPT !.calculation_status = Some("Success")],
     [UnsetCalculationFilter EXCEPT !.calculation_status__in = Some(<<"Failed">>)]}

\* filter_obj.filter(query) of calculationFilter: every field defaults to
\* None, one predicate for each field that is not None
CalculationFilterHolds(f, log) ==
    /\ IsNone(f.derived_series_id) \/ log.derived_series_id = Val(f.derived_series_id)
    /\ IsNone(f.derived_series_id__in)
          \/ log.derived_series_id \in Range(Val(f.derived_series_id__in))
    /\ IsNone(f.calculation_status) \/ log.calculation_status = Val(f.calculation_status)
    /\ IsNone(f.calculation_status__in)
          \/ log.calculation_status \in Range(Val(f.calculation_status__in))

\* path parameter calculation_id of the requests of the model
TargetCalculationIds == {1, 2}

\* GET /calculations/
get_calculations ==
    /\ \E f \in CalculationFilters :
          Returns("get_calculations", f, 200,
                  {calculation_log[i] :
                      i \in {j \in DOMAIN calculation_log :
                               CalculationFilterHolds(f, calculation_log[j])}})
    /\ GraphFrame

\* GET /calculations/{calculation_id}
get_calculation_by_id ==
    /\ \E calculation_id \in TargetCalculationIds :
          LET rows == RowsWithId(calculation_log, "calculation_id", calculation_id)
          IN  IF rows = {}
              THEN Returns("get_calculation_by_id", calculation_id, 404, {})
              ELSE Returns("get_calculation_by_id", calculation_id, 200, rows)
    /\ GraphFrame

LedgerNext ==
    \/ \E p \in Clients : create_calculation(p)
    \/ \E p \in Clients : db_commit(p)
    \/ \E p \in Clients : db_refresh(p)
    \/ \E p \in Clients : ReturnCreated(p)
    \/ get_calculations
    \/ get_calculation_by_id

LedgerSpec == RelationalInit /\ [][LedgerNext]_vars

----------------------------------------------------------------------------
(* Properties of the Calculation Ledger *)

\* C15: the ledger is append-only. Every step keeps the entries the ledger
\* has, in place and unchanged; a create_calculation that commits appends
\* one entry that carries the derived series and the status of the request
\* as supplied; a listing by derived_series_id__in [D] returns exactly the
\* entries of D, as many as were created for D.
C15_LedgerAppendOnly ==
    [][/\ Len(calculation_log') >= Len(calculation_log)
       /\ SubSeq(calculation_log', 1, Len(calculation_log)) = calculation_log
       /\ \A p \in Clients :
             (/\ db_commit(p)
              /\ session[p].table = "calculation_log"
              /\ session'[p].pc = "refresh")
             => LET obj == Val(session[p].obj_in)
                    log == calculation_log'[Len(calculation_log')]
                IN  /\ Len(calculation_log') = Len(calculation_log) + 1
                    /\ log.calculation_id = session'[p].id
                    /\ log.derived_series_id = obj.derived_series_id
                    /\ log.calculation_status = obj.calculation_status
       /\ get_calculations =>
             LET f == Val(result'.arg)
             IN  \A D \in {1, 2} :
                    f = [UnsetCalculationFilter EXCEPT !.derived_series_id__in = Some(<<D>>)]
                    => LET created == {i \in DOMAIN calculation_log :
                                          calculation_log[i].derived_series_id = D}
                       IN  /\ result'.body = {calculation_log[i] : i \in created}
                           /\ Cardinality(result'.body) = Cardinality(created)]_vars

\* two entries were created for series 2, the first "Failed" and the second
\* "Success", and the listing for series 2 returns both with these statuses
C15_Witness ==
    /\ Len(calculation_log) = 2
    /\ calculation_log[1].calculation_status = "Failed"
    /\ calculation_log[2].calculation_status = "Success"
    /\ result.op = "get_calculations"
    /\ result.arg = Some([UnsetCalculationFilter EXCEPT !.derived_series_id__in = Some(<<2>>)])
    /\ result.body = {calculation_log[1], calculation_log[2]}
    /\ \A e \in result.body : e.derived_series_id = 2

\* C16: concurrent create_calculation requests for the same derived series
\* do not exclude each other. In every reachable state a request for an
\* existing series that waits for its commit can take it, one that has
\* committed has its own entry in the ledger with the status it supplied,
\* one that has ended has ended with 201 and that entry as its body, and two
\* requests for the same series that have committed have different
\* calculation_id, so the ledger holds two entries for the series.
C16_ConcurrentCalculationsBothSucceed ==
    /\ \A p \in Clients :
          (/\ session[p].table = "calculation_log"
           /\ Val(session[p].obj_in).derived_series_id \in DOMAIN registry)
          => LET obj == Val(session[p].obj_in)
                 mine == [calculation_id |-> session[p].id,
                          derived_series_id |-> obj.derived_series_id,
                          calculation_status |-> obj.calculation_status]
             IN  /\ session[p].pc = "commit" => ENABLED db_commit(p)
                 /\ session[p].pc \in {"refresh", "done"} =>
                       \E i \in DOMAIN calculation_log : calculation_log[i] = mine
                 /\ session[p].pc = "done" =>
                       /\ session[p].status = 201
                       /\ session[p].body = Some(mine)
    /\ \A p, q \in Clients :
          (/\ p # q
           /\ session[p].table = "calculation_log"
           /\ session[q].table = "calculation_log"
           /\ session[p].pc \in {"refresh", "done"}
           /\ session[q].pc \in {"refresh", "done"}
           /\ Val(session[p].obj_in).derived_series_id \in DOMAIN registry
           /\ Val(session[p].obj_in).derived_series_id
                 = Val(session[q].obj_in).derived_series_id)
          => /\ session[p].id # session[q].id
             /\ Cardinality({i \in DOMAIN calculation_log :
                               calculation_log[i].derived_series_id
                                  = Val(session[p].obj_in).derived_series_id}) >= 2
    /\ \A i, j \in DOMAIN calculation_log :
          i # j => calculation_log[i].calculation_id # calculation_log[j].calculation_id

\* the two clients have both committed an entry for series 2 before either
\* has read its row back, and the ledger holds the two entries
C16_Witness ==
    /\ \A p \in Clients :
          /\ session[p].pc = "refresh"
          /\ session[p].table = "calculation_log"
          /\ Val(session[p].obj_in).derived_series_id = 2
    /\ Len(calculation_log) = 2
    /\ calculation_log[1].calculation_id # calculation_log[2].calculation_id

----------------------------------------------------------------------------
(* Properties of the write path and of the derived listing *)

\* C21: create_with_validation validates the series before it writes. Called
\* with a series_id that has no row in meta_series it raises (status 500
\* stands for ValueError "Series not found") after the lookup alone, with no
\* insert and the store as it was; called with a series_id that has a row it
\* appends exactly one observation, with the series_id, timestamp and value
\* supplied, and returns it.
C21_CreateValidatesSeries ==
    [][create_with_validation_called =>
          LET obj_in == Row(target'.series_id, target'.timestamp, target'.value)
          IN  IF target'.series_id \notin meta_series
              THEN /\ response'.status = 500
                   /\ value_data' = value_data
                   /\ trace' = <<"pg_validate">>
              ELSE /\ response'.status = 200
                   /\ response'.body = <<obj_in>>
                   /\ value_data' = Append(value_data, obj_in)
                   /\ trace' = <<"pg_validate", "ch_insert">>]_vars

\* an observation of series 2 was created by create_with_validation, and the
\* call that followed, for a series_id with no row, raised and left the store
\* with that observation as its last row
C21_Witness ==
    /\ entry = "create_with_validation"
    /\ pc = "done"
    /\ target.series_id = MissingSeriesId
    /\ response.status = 500
    /\ Len(value_data) = Len(SeededRows) + 1
    /\ value_data[Len(value_data)] = Row(2, Today - 1, 77)

\* C22: POST /value-data/ for an existing series, with the store available,
\* succeeds (201) and appends one observation that has the series_id of an
\* existing series and the timestamp and value of the request.
C22_CreateEndpointStores ==
    [][(create_value_data /\ ch_client) =>
          /\ response'.status = 201
          /\ \E series_id \in meta_series :
                value_data' = Append(value_data,
                                     Row(series_id, target'.timestamp, target'.value))]_vars

----------------------------------------------------------------------------
(* The specifications of the operations: the health check with the         *)
(* connection managers, and the schema with the migration and the enums    *)
(* read from it.                                                           *)

HealthNext ==
    \/ \E manager \in {"database", "redis", "clickhouse"} : init(manager)
    \/ \E manager \in {"redis", "clickhouse"} : close(manager)
    \/ health_check
    \/ \E outcome \in ProbeOutcomes : db_health_check(outcome)
    \/ \E outcome \in ProbeOutcomes : redis_health_check(outcome)
    \/ \E outcome \in ProbeOutcomes : clickhouse_health_check(outcome)

HealthSpec == Init /\ [][HealthNext]_vars

SchemaNext ==
    \/ init("database")
    \/ \E direction \in {"upgrade", "downgrade"} : alembic(direction)
    \/ run_migration
    \/ \E lookup_key \in {"asset_class", "ticker_source"}, values \in LookupValues :
          getDynamicEnum(lookup_key, values)
    \/ \E tables \in LookupTables : initializeDynamicEnums(tables)

SchemaSpec == Init /\ [][SchemaNext]_vars

----------------------------------------------------------------------------
(* Properties of the health check *)

\* C24: a finished health check is answered 503 "unhealthy" exactly when the
\* database check did not succeed, and 200 "healthy" otherwise, whatever
\* the Redis and the ClickHouse check met; every "healthy" response reports
\* the database "connected"; Redis and ClickHouse are probed only after the
\* database check has succeeded.
C24_OnlyDatabaseFailsHealth ==
    /\ health.pc \in {"redis", "clickhouse"} => health.probed["database"] = "ok"
    /\ health.pc = "done" =>
          /\ health.status_code = IF health.probed["database"] = "ok" THEN 200 ELSE 503
          /\ health.health_status.status =
                IF health.probed["database"] = "ok" THEN "healthy" ELSE "unhealthy"
          /\ health.health_status.database =
                IF health.probed["database"] = "ok" THEN "connected" ELSE "disconnected"
          /\ health.probed["database"] = "ok" =>
                /\ health.probed["redis"] \in {"ok", "error", "timeout", "uninitialized"}
                /\ health.probed["clickhouse"] \in
                      {"ok", "error", "timeout", "uninitialized"}

\* a health check answered 200 although Redis timed out and the ClickHouse
\* manager is not initialized
C24_Witness ==
    /\ health.pc = "done"
    /\ health.status_code = 200
    /\ health.health_status.status = "healthy"
    /\ health.probed["redis"] = "timeout"
    /\ health.probed["clickhouse"] = "uninitialized"

\* C25: in a health check answered 200, Redis and ClickHouse are each
\* reported "not_configured" exactly when the manager was not initialized,
\* "disconnected" exactly when the manager was initialized and the probe
\* failed or timed out, "connected" exactly when the probe succeeded, and
\* never "unknown".
C25_OptionalStoreStatus ==
    (health.pc = "done" /\ health.status_code = 200) =>
        \A store \in {"redis", "clickhouse"} :
            health.health_status[store] =
                CASE health.probed[store] = "uninitialized" -> "not_configured"
                  [] health.probed[store] = "ok" -> "connected"
                  [] OTHER -> "disconnected"

----------------------------------------------------------------------------
(* Properties of the migration *)

\* C26 as stated: in an upgrade run the operations come in the order drop
\* indexes, rename table, rename columns, create indexes, replace the
\* foreign key: no operation is followed by one of an earlier kind.
C26_UpgradeOrder ==
    LET Phase(o) == CASE o.op = "drop_index" -> 1
                      [] o.op = "rename_table" -> 2
                      [] o.op = "alter_column" -> 3
                      [] o.op = "create_index" -> 4
                      [] OTHER -> 5
    IN  (migration.direction = "upgrade" /\ migration.step > 1) =>
            Phase(upgrade[migration.step - 1])
                <= Phase(upgrade[migration.step])

\* C26, amended: in an upgrade run the lookup table is renamed, then its
\* columns, then its indexes are dropped and then created under the new
\* names; then the column of meta_series is renamed, its index dropped and
\* created under the new name; last the foreign key is dropped and created
\* under the new name.  No operation is followed by one of an earlier kind.
C26_UpgradeRenamesBeforeIndexes ==
    LET Phase(o) ==
            CASE o.op = "rename_table" -> 1
              [] o.op = "alter_column" /\ o.table # "meta_series" -> 2
              [] o.op = "drop_index" /\ o.table # "meta_series" -> 3
              [] o.op = "create_index" /\ o.table # "meta_series" -> 4
              [] o.op = "alter_column" -> 5
              [] o.op = "drop_index" -> 6
              [] o.op = "create_index" -> 7
              [] o.op = "drop_constraint" -> 8
              [] OTHER -> 9
    IN  (migration.direction = "upgrade" /\ migration.step > 1) =>
            Phase(upgrade[migration.step - 1])
                <= Phase(upgrade[migration.step])

\* an upgrade run that has executed every operation but the last: all names
\* are new and the old foreign key is dropped
C26_Witness ==
    /\ migration.direction = "upgrade"
    /\ migration.step = Len(upgrade)
    /\ migration.ddl.foreign_keys = {}
    /\ "ticker_source_lookup" \in migration.ddl.tables
    /\ \E index \in migration.ddl.indexes : index.name = "ix_meta_series_ticker_source"

\* C27: each operation of a downgrade run undoes the matching operation of
\* the upgrade, last one first: after k operations the schema is the one
\* the upgrade had produced before its last k operations, and the finished
\* run leaves the original schema at down_revision.
C27_DowngradeInvertsUpgrade ==
    [][(migration.direction = "downgrade" /\ run_migration) =>
          IF migration.step < Len(downgrade)
             THEN /\ migration'.direction = "downgrade"
                  /\ migration'.ddl =
                        After(upgrade, Len(upgrade) - migration.step, OriginalSchema)
             ELSE /\ schema' = OriginalSchema
                  /\ alembic_version' = down_revision]_vars

\* C28: the operation an upgrade or a downgrade run is about to execute
\* names only tables, columns, indexes and constraints that exist under
\* these names in the schema the preceding operations have produced.
C28_OperationsNameExistingObjects ==
    migration.direction \in {"upgrade", "downgrade"} =>
        Executable((IF migration.direction = "upgrade" THEN upgrade ELSE downgrade)
                       [migration.step],
                   migration.ddl)

----------------------------------------------------------------------------
(* Properties of the dynamic enums *)

\* C30: a call of initializeDynamicEnums after _initialized is set changes
\* no global enum; a first call in which the session cannot be opened or the
\* enum of some dimension cannot be built leaves every global enum the
\* fallback of its dimension; a first call without such a failure leaves
\* the fallback in every dimension whose lookup table gave no value.
C30_EnumsAllOrNothing ==
    [][\A tables \in LookupTables :
          initializeDynamicEnums(tables) =>
             LET fetched(key) == _fetchLookupValues(key, tables[key])
                 fails == \/ ~initialized["database"]
                          \/ \E key \in Range(LOOKUP_TABLE_CONFIG) :
                                /\ key \notin DOMAIN _enum_cache
                                /\ _createDynamicEnum(fetched(key)).raised
             IN  IF _initialized
                    THEN global_enums' = global_enums
                 ELSE IF fails
                    THEN \A key \in Range(LOOKUP_TABLE_CONFIG) :
                            global_enums'[key] = fallback_enum
                 ELSE \A key \in Range(LOOKUP_TABLE_CONFIG) :
                         (key \notin DOMAIN _enum_cache /\ fetched(key) = <<>>) =>
                             global_enums'[key] = fallback_enum]_vars

----------------------------------------------------------------------------
(* Properties of the two lower bounds of the listing *)

\* C29: when a request with a parsable timestamp__ago and a timestamp__gte
\* has scanned the Observation Store, every returned observation has a
\* timestamp on or after the date of (now - duration) and on or after
\* timestamp__gte.
C29_BothLowerBoundsEnforced ==
    (Accessed("ch_scan") /\ AgoParsable(request) /\ ~IsNone(request.timestamp__gte)) =>
        \A i \in DOMAIN value_data_list :
            /\ value_data_list[i].timestamp >=
                  DateOf(now - Val(pytimeparse2_parse(Val(request.timestamp__ago))))
            /\ value_data_list[i].timestamp >= Val(request.timestamp__gte)

====
